---- MODULE Spec2Model ----
(***************************************************************************)
(* A model of the sloppy DHT core.                                         *)
(*                                                                         *)
(*   - lib.rs        : the Node facade, the routing merge (mod routing),   *)
(*                     the remote-node record, neighbour search            *)
(*   - routing.rs    : the self-contained Table / Bucket revision          *)
(*   - msg_buffer.rs : the outbound FIFO and OutboundMsg::into_transaction *)
(*   - transaction.rs: the 16-bit transaction Id                           *)
(*                                                                         *)
(* Time is counted in minutes.  Ids are IdBits wide instead of 160 bits,   *)
(* transaction ids are TxIdBits wide instead of 16 bits.  Option<T> is a   *)
(* sequence of length 0 (None) or 1 (Some).                                *)
(***************************************************************************)
EXTENDS Integers, Sequences, FiniteSets, TLC

\* ------------------------------------------------------------------ bounds
IdBits == 3
TxIdBits == 2
NumAddrs == 2
TimeoutHorizon == 1
MaxSent == 4
TimeoutSent == 2
StrictSent == 2
BufferSent == 3
BufferHorizon == 2
MaxNodesPerBucket == 2
TableOps == 2
TableHorizon == 15
RoutingSent == 1
RoutingHorizon == 15
RecvSent == 1         \* queries the host sends in the scenario of all message kinds
RecvUnknowns == 2     \* messages of unknown type a contact sends in that scenario
DeadlineSent == 1     \* queries the host sends in the scenario of the deadlines
DeadlineHorizon == 17 \* how far the clock runs there: past FIND_LOCAL_ID_INTERVAL
KarmaSent == 2        \* queries the host sends in the scenario of the karma
Alpha == 2            \* concurrent queries of a find-node operation (3, scaled)
OpQueries == 8        \* queries a find-node operation driven directly may send
KClosest == 3         \* results of a find-node operation (8, scaled)
PingSent == 3         \* pings the host sends in the scenario of the pings
PingHorizon == 30     \* how far the clock runs there
DeadPings == 7        \* pings the host may spend on the silent contact
DeadHorizon == 30     \* the latest instant of that scenario
AuthorSent == 3       \* queries the host authors in the scenario of the queue

\* ------------------------------------------------------- program constants
MAX_BUCKET_SIZE == 8
BUCKET_REFRESH_INTERVAL == 15
FIND_LOCAL_ID_INTERVAL == 15
TIMEOUT_INTERVAL == 15
KARMA_MAX == 3
KARMA_BAD == -2
I8_MIN == -128
EXPECT_CHANGE_INTERVAL == 15
BUCKET_NEW_INTERVAL == 5
DEFAULT_QUERY_TIMEOUT == 1

\* ------------------------------------------------------------ Option<T>
None == <<>>
Some(x) == <<x>>
IsSome(o) == Len(o) = 1
Unwrap(o) == o[1]

\* ------------------------------------------------------------- sequences
RECURSIVE SeqConcat(_)
SeqConcat(ss) == IF ss = <<>> THEN <<>> ELSE Head(ss) \o SeqConcat(Tail(ss))

Range(s) == {s[i] : i \in 1..Len(s)}

Min(S) == CHOOSE x \in S : \A y \in S : x <= y
Max(S) == CHOOSE x \in S : \A y \in S : y <= x

\* ------------------------------------------------------------ identifiers
ID_MIN == 0
ID_MAX == 2^IdBits - 1
Ids == ID_MIN..ID_MAX
Addrs == 1..NumAddrs
\* the id of a component that a scenario leaves out
NoId == 0 - 1

RECURSIVE XorBits(_, _, _)
XorBits(a, b, n) ==
    IF n = 0 THEN 0
    ELSE (((a % 2) + (b % 2)) % 2) + 2 * XorBits(a \div 2, b \div 2, n - 1)

\* Id::distance: the XOR metric
Id_distance(a, b) == XorBits(a, b, IdBits)

\* Id::middle: the arithmetic midpoint of two ids
Id_middle(a, b) == (a + b) \div 2

\* Id::next: value + 1 saturating at Id::max
Id_next(a) == IF a = ID_MAX THEN ID_MAX ELSE a + 1

AddrId(addr, id) == [addr |-> addr, id |-> id]
AddrIds == [addr : Addrs, id : Ids]

\* ----------------------------------------------- lib.rs: remote-node record
\* routing::Node::new
routing_Node_new(addr_id, now) ==
    [addr_id |-> addr_id,
     karma |-> 0,
     next_response_deadline |-> now + TIMEOUT_INTERVAL,
     next_query_deadline |-> now + TIMEOUT_INTERVAL,
     ping_tx_id |-> None]

\* i8::saturating_sub(1)
saturating_sub1(k) == IF k = I8_MIN THEN I8_MIN ELSE k - 1

\* the increment of the Response arm without the clamp to 3
add1_unclamped(k) == k + 1

\* i8::saturating_add(1) followed by the clamp to 3
saturating_add1_clamped(k) == IF k + 1 > KARMA_MAX THEN KARMA_MAX ELSE k + 1

\* routing::Node::timeout
routing_Node_timeout(n) ==
    IF n.next_response_deadline >= n.next_query_deadline
    THEN n.next_response_deadline ELSE n.next_query_deadline

\* the state with a record already Bad at the karma of the threshold
state_with_now_bad_at_threshold(n, now) ==
    IF now < n.next_response_deadline THEN "Good"
    ELSE IF now < n.next_query_deadline THEN "Good"
    ELSE IF n.karma <= KARMA_BAD THEN "Bad"
    ELSE "Questionable"

\* routing::Node::state_with_now
routing_Node_state_with_now(n, now) ==
    IF now < n.next_response_deadline THEN "Good"
    ELSE IF now < n.next_query_deadline THEN "Good"
    ELSE IF n.karma < KARMA_BAD THEN "Bad"
    ELSE "Questionable"

\* the "clear the ping if it is this transaction" block shared by the arms
clear_ping(n, tx_id) ==
    IF IsSome(tx_id) /\ IsSome(n.ping_tx_id) /\ Unwrap(n.ping_tx_id) = Unwrap(tx_id)
    THEN None ELSE n.ping_tx_id

\* an on_msg_received whose Query arm also raises the karma
on_msg_received_rewarding_queries(n, kind, tx_id, now) ==
    CASE kind = "Response" ->
           [n EXCEPT !.ping_tx_id = clear_ping(n, tx_id),
                     !.next_response_deadline = now + TIMEOUT_INTERVAL,
                     !.karma = saturating_add1_clamped(n.karma)]
      [] kind = "Query" ->
           [n EXCEPT !.next_query_deadline = now + TIMEOUT_INTERVAL,
                     !.karma = saturating_add1_clamped(n.karma)]
      [] kind = "Error" ->
           [n EXCEPT !.ping_tx_id = clear_ping(n, tx_id),
                     !.next_response_deadline = now + TIMEOUT_INTERVAL,
                     !.karma = saturating_sub1(n.karma)]
      [] kind = "Unknown" ->
           [n EXCEPT !.ping_tx_id = clear_ping(n, tx_id),
                     !.karma = saturating_sub1(n.karma)]

\* routing::Node::on_msg_received
routing_Node_on_msg_received(n, kind, tx_id, now) ==
    CASE kind = "Response" ->
           [n EXCEPT !.ping_tx_id = clear_ping(n, tx_id),
                     !.next_response_deadline = now + TIMEOUT_INTERVAL,
                     !.karma = saturating_add1_clamped(n.karma)]
      [] kind = "Query" ->
           [n EXCEPT !.next_query_deadline = now + TIMEOUT_INTERVAL]
      [] kind = "Error" ->
           [n EXCEPT !.ping_tx_id = clear_ping(n, tx_id),
                     !.next_response_deadline = now + TIMEOUT_INTERVAL,
                     !.karma = saturating_sub1(n.karma)]
      [] kind = "Unknown" ->
           [n EXCEPT !.ping_tx_id = clear_ping(n, tx_id),
                     !.karma = saturating_sub1(n.karma)]

\* routing::Node::on_resp_timeout
routing_Node_on_resp_timeout(n, tx_id) ==
    [n EXCEPT !.karma = saturating_sub1(n.karma),
              !.ping_tx_id = clear_ping(n, Some(tx_id))]

\* routing::Node::on_ping
routing_Node_on_ping(n, tx_id) == [n EXCEPT !.ping_tx_id = Some(tx_id)]

\* ------------- the Table / Bucket type lib.rs imports (cloudburst::dht::routing)
\* A bucket is [lo, hi, nodes, refresh_deadline]; a table is [pivot, buckets].
\* Bucket::new
cb_Bucket_new(lo, hi, refresh_deadline) ==
    [lo |-> lo, hi |-> hi, nodes |-> <<>>, refresh_deadline |-> refresh_deadline]

\* RangeInclusive::contains
range_contains(b, id) == b.lo <= id /\ id <= b.hi

\* Table::new: one bucket covering the whole id space
cb_Table_new(pivot, refresh_deadline) ==
    [pivot |-> pivot, buckets |-> <<cb_Bucket_new(ID_MIN, ID_MAX, refresh_deadline)>>]

\* Table::find_mut: the index of the first bucket whose range contains id
cb_Table_find_mut(table, id) ==
    Min({i \in 1..Len(table.buckets) : range_contains(table.buckets[i], id)})

\* Bucket::split: [lo, mid] and [mid.next(), hi], records moved by containment
cb_Bucket_split(b) ==
    LET mid == Id_middle(b.lo, b.hi)
        lower == cb_Bucket_new(b.lo, mid, b.refresh_deadline)
        upper == cb_Bucket_new(Id_next(mid), b.hi, b.refresh_deadline)
    IN  <<[lower EXCEPT !.nodes =
               SelectSeq(b.nodes, LAMBDA n : range_contains(lower, n.addr_id.id))],
          [upper EXCEPT !.nodes =
               SelectSeq(b.nodes, LAMBDA n : ~range_contains(lower, n.addr_id.id))]>>

\* Table::split_last: the last bucket is split, the half with the pivot goes last
cb_Table_split_last(table) ==
    LET k == Len(table.buckets)
        halves == cb_Bucket_split(table.buckets[k])
        rest == SubSeq(table.buckets, 1, k - 1)
    IN  [table EXCEPT !.buckets =
            IF range_contains(halves[1], table.pivot)
            THEN rest \o <<halves[2], halves[1]>>
            ELSE rest \o <<halves[1], halves[2]>>]

\* Bucket::insert
cb_Bucket_insert(b, node) == [b EXCEPT !.nodes = Append(b.nodes, node)]

\* Bucket::set_refresh_deadline
cb_Bucket_set_refresh_deadline(b, deadline) == [b EXCEPT !.refresh_deadline = deadline]

\* the position of the first record of a bucket with this AddrId, 0 if none
find_addr_id(nodes, addr_id) ==
    IF \E i \in 1..Len(nodes) : nodes[i].addr_id = addr_id
    THEN Min({i \in 1..Len(nodes) : nodes[i].addr_id = addr_id})
    ELSE 0

\* --------------------------------------------- lib.rs: mod routing (merge)
Ok(table) == [table |-> table, fault |-> "none"]
Fault(table, what) == [table |-> table, fault |-> what]

\* the split loop of routing::on_recv and Node::new, entered when the bucket of
\* id contains the pivot:
\*     while bucket_len == MAX_BUCKET_SIZE { split_last(); find_mut(); break if no pivot }
\* A split that leaves the located bucket as it was repeats for ever ("hang").
RECURSIVE split_loop(_, _)
split_loop(table, id) ==
    LET b == table.buckets[cb_Table_find_mut(table, id)]
    IN  IF Len(b.nodes) # MAX_BUCKET_SIZE THEN Ok(table)
        ELSE LET t2 == cb_Table_split_last(table)
                 b2 == t2.buckets[cb_Table_find_mut(t2, id)]
             IN  IF ~range_contains(b2, t2.pivot) THEN Ok(t2)
                 ELSE IF b2 = b THEN Fault(table, "hang")
                 ELSE split_loop(t2, id)

\* lines 775-786 of routing::on_recv, 305-316 of Node::new
split_if_pivot(table, id) ==
    IF range_contains(table.buckets[cb_Table_find_mut(table, id)], table.pivot)
    THEN split_loop(table, id)
    ELSE Ok(table)

\* bucket.retain(|node| state is Good or Questionable)
retain_not_bad(nodes, now) ==
    SelectSeq(nodes, LAMBDA n : routing_Node_state_with_now(n, now) # "Bad")

\* the contact appended whatever the size of its bucket
insert_unbounded(table, addr_id, refresh_bucket_deadline, now) ==
    LET i == cb_Table_find_mut(table, addr_id.id)
    IN  Ok([table EXCEPT !.buckets[i] =
               cb_Bucket_set_refresh_deadline(
                   cb_Bucket_insert(table.buckets[i], routing_Node_new(addr_id, now)),
                   refresh_bucket_deadline)])

\* the tail of routing::on_recv once the bucket has been located (lines 788-803)
insert_or_replace(table, addr_id, refresh_bucket_deadline, now) ==
    LET i == cb_Table_find_mut(table, addr_id.id)
        b == table.buckets[i]
        bucket_len == Len(b.nodes)
        fresh == routing_Node_new(addr_id, now)
        kept == [b EXCEPT !.nodes = retain_not_bad(b.nodes, now)]
    IN  IF bucket_len < MAX_BUCKET_SIZE
        THEN Ok([table EXCEPT !.buckets[i] =
                    cb_Bucket_set_refresh_deadline(cb_Bucket_insert(b, fresh),
                                                refresh_bucket_deadline)])
        ELSE IF bucket_len # MAX_BUCKET_SIZE
        THEN Fault(table, "panic")
        ELSE IF Len(kept.nodes) < MAX_BUCKET_SIZE
        THEN Ok([table EXCEPT !.buckets[i] =
                    cb_Bucket_set_refresh_deadline(cb_Bucket_insert(kept, fresh),
                                                refresh_bucket_deadline)])
        ELSE Ok([table EXCEPT !.buckets[i] = kept])

\* the contact merged without a look for the record the bucket may hold
routing_on_recv_blind(table, addr_id, kind, tx_id, refresh_bucket_deadline, now) ==
    LET r == split_if_pivot(table, addr_id.id)
    IN  IF r.fault # "none" THEN r
        ELSE insert_or_replace(r.table, addr_id, refresh_bucket_deadline, now)

\* routing::on_recv
routing_on_recv(table, addr_id, kind, tx_id, refresh_bucket_deadline, now) ==
    LET i == cb_Table_find_mut(table, addr_id.id)
        j == find_addr_id(table.buckets[i].nodes, addr_id)
    IN  IF j # 0
        THEN Ok([table EXCEPT !.buckets[i].nodes[j] =
                    routing_Node_on_msg_received(@, kind, tx_id, now)])
        ELSE LET r == split_if_pivot(table, addr_id.id)
             IN  IF r.fault # "none" THEN r
                 ELSE insert_or_replace(r.table, addr_id, refresh_bucket_deadline, now)

\* routing::on_timeout
routing_on_timeout(table, addr_id, tx_id) ==
    LET i == cb_Table_find_mut(table, addr_id.id)
        j == find_addr_id(table.buckets[i].nodes, addr_id)
    IN  IF j # 0
        THEN [table EXCEPT !.buckets[i].nodes[j] = routing_Node_on_resp_timeout(@, tx_id)]
        ELSE table

\* the body of the `for addr_id in addr_ids` loop of Node::new
Node_new_insert(table, addr_id, now) ==
    LET r == split_if_pivot(table, addr_id.id)
        t == r.table
        i == cb_Table_find_mut(t, addr_id.id)
    IN  IF r.fault # "none" THEN r
        ELSE IF Len(t.buckets[i].nodes) < MAX_BUCKET_SIZE
        THEN Ok([t EXCEPT !.buckets[i] =
                    cb_Bucket_set_refresh_deadline(
                        cb_Bucket_insert(t.buckets[i], routing_Node_new(addr_id, now)),
                        now + BUCKET_REFRESH_INTERVAL)])
        ELSE Ok(t)

\* the `for addr_id in addr_ids` loop of Node::new
RECURSIVE Node_new_table(_, _, _)
Node_new_table(r, addr_ids, now) ==
    IF addr_ids = <<>> \/ r.fault # "none" THEN r
    ELSE Node_new_table(Node_new_insert(r.table, Head(addr_ids), now),
                        Tail(addr_ids), now)

\* all records of the table in table order
table_nodes(table) ==
    SeqConcat([i \in 1..Len(table.buckets) |-> table.buckets[i].nodes])

\* an insertion that puts a contact before those at the same distance
RECURSIVE insert_before_equal(_, _, _)
insert_before_equal(sorted, a, target) ==
    IF sorted = <<>> THEN <<a>>
    ELSE IF Id_distance(a.id, target) <= Id_distance(Head(sorted).id, target)
         THEN <<a>> \o sorted
         ELSE <<Head(sorted)>> \o insert_before_equal(Tail(sorted), a, target)

\* Vec::sort_by_key: a stable insertion sort on the key d(id, target)
RECURSIVE insert_by_distance(_, _, _)
insert_by_distance(sorted, a, target) ==
    IF sorted = <<>> THEN <<a>>
    ELSE IF Id_distance(a.id, target) < Id_distance(Head(sorted).id, target)
         THEN <<a>> \o sorted
         ELSE <<Head(sorted)>> \o insert_by_distance(Tail(sorted), a, target)

RECURSIVE sort_by_distance(_, _)
sort_by_distance(addr_ids, target) ==
    IF addr_ids = <<>> THEN <<>>
    ELSE insert_by_distance(
             sort_by_distance(SubSeq(addr_ids, 1, Len(addr_ids) - 1), target),
             addr_ids[Len(addr_ids)], target)

\* routing::find_neighbors
routing_find_neighbors(table, id, now) ==
    LET nodes == table_nodes(table)
    IN  sort_by_distance([i \in 1..Len(nodes) |-> nodes[i].addr_id], id)

\* Iterator::take
take(s, n) == IF Len(s) <= n THEN s ELSE SubSeq(s, 1, n)

\* --------------------------- transaction::Id (transaction.rs) and the store
TX_ID_MAX == 2^TxIdBits - 1          \* u16::MAX
TxIds == 0..TX_ID_MAX

\* transaction::Id::next: overflowing_add(1), the overflow flag dropped
Id_next_tx(id) == (id + 1) % (TX_ID_MAX + 1)

\* Transaction::new
Transaction(addr, id, tx_id, deadline) ==
    [tx_id |-> tx_id, addr |-> addr, id |-> id, deadline |-> deadline]

\* Transactions::contains
Transactions_contains(txs, tx_id) == \E i \in 1..Len(txs) : txs[i].tx_id = tx_id

\* Transactions::insert
Transactions_insert(txs, tx) == Append(txs, tx)

\* the position of the first held transaction with this id, 0 if none
find_tx(txs, tx_id) ==
    IF Transactions_contains(txs, tx_id)
    THEN Min({i \in 1..Len(txs) : txs[i].tx_id = tx_id})
    ELSE 0

remove_at(s, i) == SubSeq(s, 1, i - 1) \o SubSeq(s, i + 1, Len(s))

\* Transactions::on_recv_resp.  A message is [y, t, id]: t is the 2-byte
\* transaction id (None when missing or malformed), id is r.id / a.id.
\* The transaction found is taken out of the store; a response rejected by the
\* node-id checks is not put back.
Transactions_on_recv_resp(txs, value, strict_node_id_check, local_id) ==
    LET i == IF IsSome(value.t) THEN find_tx(txs, Unwrap(value.t)) ELSE 0
        tx == txs[i]
        rest == remove_at(txs, i)
    IN  IF i = 0 THEN [ok |-> FALSE, tx |-> None, txs |-> txs]
        ELSE IF strict_node_id_check /\ IsSome(tx.id) /\ value.id # tx.id
        THEN [ok |-> FALSE, tx |-> None, txs |-> rest]
        ELSE IF value.id = Some(local_id)
        THEN [ok |-> FALSE, tx |-> None, txs |-> rest]
        ELSE [ok |-> TRUE, tx |-> Some(tx), txs |-> rest]

\* the error looked up without taking its transaction out of the store
on_recv_error_keeping(txs, value) ==
    LET i == IF IsSome(value.t) THEN find_tx(txs, Unwrap(value.t)) ELSE 0
    IN  IF i = 0 THEN [ok |-> FALSE, tx |-> None, txs |-> txs]
        ELSE [ok |-> TRUE, tx |-> Some(txs[i]), txs |-> txs]

\* Transactions::on_recv_error
Transactions_on_recv_error(txs, value) ==
    LET i == IF IsSome(value.t) THEN find_tx(txs, Unwrap(value.t)) ELSE 0
    IN  IF i = 0 THEN [ok |-> FALSE, tx |-> None, txs |-> txs]
        ELSE [ok |-> TRUE, tx |-> Some(txs[i]), txs |-> remove_at(txs, i)]

\* Transactions::timeout: the earliest deadline held
Transactions_timeout(txs) ==
    IF txs = <<>> THEN None ELSE Some(Min({txs[i].deadline : i \in 1..Len(txs)}))

\* the positions Transactions::pop_timed_out_tx may take a transaction from
timed_out(txs, now) == {i \in 1..Len(txs) : txs[i].deadline <= now}

\* --------------------------------- the find-node operation lib.rs imports
\* An operation is its target and its candidates, nearest to the target
\* first, at most 2 * KClosest of them, each with a status ("Pending",
\* "InFlight", "Responded" or "Failed") and, once promoted, the id of the
\* transaction of its query.
\* the distance of a candidate; one whose id is not known yet comes last
cand_distance(c, target) ==
    IF IsSome(c.id) THEN Id_distance(Unwrap(c.id), target) ELSE 2^IdBits

\* a candidate put behind all others, whatever its distance
insert_candidate_last(cs, c, target) == Append(cs, c)

\* a candidate put in its place, behind those at the same distance
RECURSIVE insert_candidate(_, _, _)
insert_candidate(cs, c, target) ==
    IF cs = <<>> THEN <<c>>
    ELSE IF cand_distance(c, target) < cand_distance(Head(cs), target)
         THEN <<c>> \o cs
         ELSE <<Head(cs)>> \o insert_candidate(Tail(cs), c, target)

\* step 1: the contacts not yet among the candidates are added as Pending
RECURSIVE merge_candidates(_, _, _)
merge_candidates(cs, nodes, target) ==
    IF nodes = <<>> THEN cs
    ELSE LET n == Head(nodes)
             known == \E i \in 1..Len(cs) : cs[i].addr = n.addr /\ cs[i].id = n.id
         IN  merge_candidates(
                 IF known THEN cs
                 ELSE insert_candidate(cs, [addr |-> n.addr, id |-> n.id,
                                            status |-> "Pending", tx_id |-> None], target),
                 Tail(nodes), target)

\* FindNodeOp::new
FindNodeOp_new(target, neighbors) ==
    [target |-> target,
     candidates |-> take(merge_candidates(<<>>, neighbors, target), 2 * KClosest)]

in_flight(op) == {i \in 1..Len(op.candidates) : op.candidates[i].status = "InFlight"}

\* step 3: the Pending candidates among the KClosest nearest that are neither
\* Failed nor Responded
promotable(op) ==
    LET open == SelectSeq([i \in 1..Len(op.candidates) |-> i],
                          LAMBDA i : op.candidates[i].status \in {"Pending", "InFlight"})
    IN  {i \in Range(take(open, KClosest)) : op.candidates[i].status = "Pending"}

\* step 3 without the limit on the queries in flight
can_promote_unlimited(op) == promotable(op) # {}

can_promote(op) == Cardinality(in_flight(op)) < Alpha /\ promotable(op) # {}

\* step 3, one promotion: the next such candidate is InFlight with the id of
\* the transaction of the query authored toward it
FindNodeOp_promote(op, tx_id) ==
    [op EXCEPT !.candidates[Min(promotable(op))] =
        [@ EXCEPT !.status = "InFlight", !.tx_id = Some(tx_id)]]

\* FindNodeOp::handle: if the transaction is the one of an InFlight candidate,
\* steps 1 and 2; nodes are the contacts of the r.nodes of a response
FindNodeOp_handle(op, tx, response, nodes) ==
    LET belongs == \E i \in in_flight(op) : op.candidates[i].tx_id = Some(tx.tx_id)
        learned == [i \in 1..Len(nodes) |-> [addr |-> nodes[i].addr, id |-> Some(nodes[i].id)]]
        merged == IF response = "Resp"
                  THEN take(merge_candidates(op.candidates, learned, op.target), 2 * KClosest)
                  ELSE op.candidates
    IN  IF ~belongs THEN op
        ELSE [op EXCEPT !.candidates =
                [i \in 1..Len(merged) |->
                    IF merged[i].status = "InFlight" /\ merged[i].tx_id = Some(tx.tx_id)
                    THEN [merged[i] EXCEPT
                             !.status = IF response = "Resp" THEN "Responded" ELSE "Failed"]
                    ELSE merged[i]]]

\* FindNodeOp::is_done, step 4
FindNodeOp_is_done(op) ==
    /\ in_flight(op) = {}
    /\ \A i \in 1..Len(take(op.candidates, KClosest)) :
          op.candidates[i].status \in {"Responded", "Failed"}

\* the contacts of the r.nodes of a find_node response
r_nodes(value) == IF "nodes" \in DOMAIN value THEN value.nodes ELSE <<>>

\* the loop over the operations without the retain that follows it
handle_all_keeping(ops, tx, response, nodes) ==
    [i \in 1..Len(ops) |-> FindNodeOp_handle(ops[i], tx, response, nodes)]

\* for op in &mut find_node_ops { op.handle(..) }; retain(|op| !op.is_done())
handle_all(ops, tx, response, nodes) ==
    SelectSeq([i \in 1..Len(ops) |-> FindNodeOp_handle(ops[i], tx, response, nodes)],
              LAMBDA op : ~FindNodeOp_is_done(op))

\* ------------------------------------------------------ lib.rs: Node facade
\* u16::wrapping_add(1)
wrapping_add1(num) == (num + 1) % (TX_ID_MAX + 1)

\* the probe loop of Node::next_tx_id; it never ends when every id is held
RECURSIVE probe_tx_id(_, _, _)
probe_tx_id(txs, num, left) ==
    IF left = 0 THEN [res |-> "hang", tx_id |-> None]
    ELSE IF ~Transactions_contains(txs, num) THEN [res |-> "Ok", tx_id |-> Some(num)]
    ELSE probe_tx_id(txs, wrapping_add1(num), left - 1)

\* the draw handed out without looking at the held ids
Node_next_tx_id_unchecked(txs, num) ==
    IF Len(txs) = TX_ID_MAX
    THEN [res |-> "Err", tx_id |-> None]
    ELSE [res |-> "Ok", tx_id |-> Some(num)]

\* Node::next_tx_id, num being the random draw
Node_next_tx_id(txs, num) ==
    IF Len(txs) = TX_ID_MAX
    THEN [res |-> "Err", tx_id |-> None]
    ELSE probe_tx_id(txs, num, TX_ID_MAX + 1)

\* Value::ty of the decoded message
Value_ty(value) ==
    CASE value.y = "r" -> Some("Response")
      [] value.y = "e" -> Some("Error")
      [] value.y = "q" -> Some("Query")
      [] value.y = "absent" -> None
      [] OTHER -> Some("Unknown")

OkEvent(kind, addr, id) ==
    [res |-> "Ok", kind |-> kind, addr_opt_id |-> Some([addr |-> addr, id |-> id]),
     tx_id |-> None]
ErrEvent(kind) ==
    [res |-> "Err", kind |-> kind, addr_opt_id |-> None, tx_id |-> None]

NodeResult(r, txs, ops, event) ==
    [table |-> r.table, txs |-> txs, ops |-> ops, fault |-> r.fault, event |-> event]

\* the response arm with the strict flag not passed on
on_recv_response_lenient(cfg, table, txs, ops, value, addr, now) ==
    LET got == Transactions_on_recv_resp(txs, value, FALSE, cfg.local_id)
        tx == Unwrap(got.tx)
        node_id == IF IsSome(tx.id) THEN tx.id ELSE value.id
    IN  IF got.ok
        THEN NodeResult(
                 IF IsSome(node_id)
                 THEN routing_on_recv(table, AddrId(addr, Unwrap(node_id)), "Response",
                                      Some(tx.tx_id), now + BUCKET_REFRESH_INTERVAL, now)
                 ELSE Ok(table),
                 got.txs, handle_all(ops, tx, "Resp", r_nodes(value)), OkEvent("Resp", tx.addr, tx.id))
        ELSE NodeResult(Ok(table), got.txs, ops, ErrEvent("InvalidInput"))

\* Node::on_recv_with_now, the Ty::Response arm
on_recv_response(cfg, table, txs, ops, value, addr, now) ==
    LET got == Transactions_on_recv_resp(txs, value, cfg.strict, cfg.local_id)
        tx == Unwrap(got.tx)
        node_id == IF IsSome(tx.id) THEN tx.id ELSE value.id
    IN  IF got.ok
        THEN NodeResult(
                 IF IsSome(node_id)
                 THEN routing_on_recv(table, AddrId(addr, Unwrap(node_id)), "Response",
                                      Some(tx.tx_id), now + BUCKET_REFRESH_INTERVAL, now)
                 ELSE Ok(table),
                 got.txs, handle_all(ops, tx, "Resp", r_nodes(value)), OkEvent("Resp", tx.addr, tx.id))
        ELSE NodeResult(Ok(table), got.txs, ops, ErrEvent("InvalidInput"))

\* the error arm with the routing table told of the sender before the
\* transaction is looked up
on_recv_error_merging(cfg, table, txs, ops, value, addr, now) ==
    LET got == Transactions_on_recv_error(txs, value)
        tx == Unwrap(got.tx)
        told == IF IsSome(value.id)
                THEN routing_on_recv(table, AddrId(addr, Unwrap(value.id)), "Error",
                                     None, now + BUCKET_REFRESH_INTERVAL, now)
                ELSE Ok(table)
    IN  IF got.ok
        THEN NodeResult(told, got.txs, handle_all(ops, tx, "Error", <<>>),
                        OkEvent("Error", tx.addr, tx.id))
        ELSE NodeResult(told, got.txs, ops, ErrEvent("InvalidInput"))

\* Node::on_recv_with_now, the Ty::Error arm
on_recv_error(cfg, table, txs, ops, value, addr, now) ==
    LET got == Transactions_on_recv_error(txs, value)
        tx == Unwrap(got.tx)
    IN  IF got.ok
        THEN NodeResult(
                 IF IsSome(tx.id)
                 THEN routing_on_recv(table, AddrId(addr, Unwrap(tx.id)), "Error",
                                      Some(tx.tx_id), now + BUCKET_REFRESH_INTERVAL, now)
                 ELSE Ok(table),
                 got.txs, handle_all(ops, tx, "Error", <<>>), OkEvent("Error", tx.addr, tx.id))
        ELSE NodeResult(Ok(table), got.txs, ops, ErrEvent("InvalidInput"))

\* Node::on_recv_with_now, the Ty::Query | Ty::Unknown arm
on_recv_query(cfg, table, txs, ops, value, kind, addr, now) ==
    NodeResult(
        IF IsSome(value.id)
        THEN routing_on_recv(table, AddrId(addr, Unwrap(value.id)), kind,
                             None, now + BUCKET_REFRESH_INTERVAL, now)
        ELSE Ok(table),
        txs, ops, OkEvent("Query", addr, value.id))

\* bytes that bt_bencode::from_slice rejects
Garbage == [y |-> "garbage", id |-> None, t |-> None]

\* Node::on_recv_with_now
Node_on_recv_with_now(cfg, table, txs, ops, value, addr, now) ==
    IF value = Garbage
    THEN NodeResult(Ok(table), txs, ops, ErrEvent("BtBencode"))
    ELSE LET ty == Value_ty(value)
         IN  IF ~IsSome(ty) THEN NodeResult(Ok(table), txs, ops, ErrEvent("UnknownMsgTy"))
             ELSE CASE Unwrap(ty) = "Response" ->
                         on_recv_response(cfg, table, txs, ops, value, addr, now)
                    [] Unwrap(ty) = "Error" ->
                         on_recv_error(cfg, table, txs, ops, value, addr, now)
                    [] OTHER ->
                         on_recv_query(cfg, table, txs, ops, value, Unwrap(ty), addr, now)

\* the transaction popped without telling the routing table
Node_pop_timed_out_tx_silent(table, txs, ops, i) ==
    [table |-> table, txs |-> remove_at(txs, i), ops |-> handle_all(ops, txs[i], "Timeout", <<>>),
     tx |-> Some(txs[i])]

\* Node::pop_timed_out_tx, i being the position of the transaction popped
Node_pop_timed_out_tx(table, txs, ops, i) ==
    LET tx == txs[i]
    IN  [table |-> IF IsSome(tx.id)
                   THEN routing_on_timeout(table, AddrId(tx.addr, Unwrap(tx.id)), tx.tx_id)
                   ELSE table,
         txs |-> remove_at(txs, i),
         ops |-> handle_all(ops, tx, "Timeout", <<>>),
         tx |-> Some(tx)]

\* MyBucket::timeout: the refresh deadline or, if earlier, the earliest
\* Node::timeout of the records that are not being pinged
routing_Bucket_timeout(b) ==
    LET not_pinged == {i \in 1..Len(b.nodes) : ~IsSome(b.nodes[i].ping_tx_id)}
    IN  Min({b.refresh_deadline} \cup {routing_Node_timeout(b.nodes[i]) : i \in not_pinged})

\* MyTable::timeout
routing_Table_timeout(table) ==
    IF table.buckets = <<>> THEN None
    ELSE Some(Min({routing_Bucket_timeout(table.buckets[i]) : i \in 1..Len(table.buckets)}))

\* the first record of the bucket whatever its state
find_node_to_ping_any_state(b, now) ==
    IF b.nodes = <<>> THEN 0 ELSE 1

\* MyBucket::find_node_to_ping: the position of the first record that is
\* Questionable and has no ping in flight, 0 if there is none
routing_Bucket_find_node_to_ping(b, now) ==
    LET hits == {j \in 1..Len(b.nodes) :
                    /\ routing_Node_state_with_now(b.nodes[j], now) = "Questionable"
                    /\ ~IsSome(b.nodes[j].ping_tx_id)}
    IN  IF hits = {} THEN 0 ELSE Min(hits)

\* MyTable::find_node_to_ping: <<bucket, position>> of the record found in the
\* first bucket that has one
routing_Table_find_node_to_ping(table, now) ==
    LET hits == {i \in 1..Len(table.buckets) :
                    routing_Bucket_find_node_to_ping(table.buckets[i], now) # 0}
    IN  IF hits = {} THEN None
        ELSE Some(<<Min(hits),
                    routing_Bucket_find_node_to_ping(table.buckets[Min(hits)], now)>>)

\* Table::find_bucket_to_refresh: the first bucket whose refresh deadline has
\* passed, 0 if there is none
cb_Table_find_bucket_to_refresh(table, now) ==
    LET due == {i \in 1..Len(table.buckets) : table.buckets[i].refresh_deadline <= now}
    IN  IF due = {} THEN 0 ELSE Min(due)

\* Node::find_node: the eight nearest known contacts, then the bootstrap
\* addresses, whose ids are not known
Node_find_node(table, target_id, bootstrap_addrs, now) ==
    LET near == take(routing_find_neighbors(table, target_id, now), 8)
    IN  FindNodeOp_new(target_id,
            [i \in 1..Len(near) |-> [addr |-> near[i].addr, id |-> Some(near[i].id)]]
            \o [i \in 1..Len(bootstrap_addrs) |-> [addr |-> bootstrap_addrs[i], id |-> None]])

\* Node::find_node_pivot
Node_find_node_pivot(table, ops, bootstrap_addrs, now) ==
    Append(ops, Node_find_node(table, table.pivot, bootstrap_addrs, now))

\* Node::timeout: the earliest of the deadlines that are Some
Node_timeout(txs, table) ==
    LET deadlines == {Transactions_timeout(txs), routing_Table_timeout(table)} \ {None}
    IN  IF deadlines = {} THEN None ELSE Some(Min({Unwrap(d) : d \in deadlines}))

\* Node::on_timeout_with_now without the line that moves the deadline
on_timeout_keeping_deadline(table, ops, deadline, now) ==
    IF deadline <= now
    THEN [ops |-> Node_find_node_pivot(table, ops, <<>>, now),
          find_pivot_id_deadline |-> deadline]
    ELSE [ops |-> ops, find_pivot_id_deadline |-> deadline]

\* Node::on_timeout_with_now
Node_on_timeout_with_now(table, ops, deadline, now) ==
    IF deadline <= now
    THEN [ops |-> Node_find_node_pivot(table, ops, <<>>, now),
          find_pivot_id_deadline |-> now + FIND_LOCAL_ID_INTERVAL]
    ELSE [ops |-> ops, find_pivot_id_deadline |-> deadline]

\* the history of the find-node operations before any is looked at
NoLog == [observed |-> {}, promoted |-> <<>>]

\* ------------------------------------------------------------------- state
VARIABLES
    config,                 \* Node.config: [local_id, strict]
    routing_table,          \* Node.routing_table
    find_pivot_id_deadline, \* Node.find_pivot_id_deadline
    tx_manager,             \* Node.tx_manager: the held transactions, in order
    find_node_ops,          \* Node.find_node_ops
    lookup_log,             \* history of an operation driven directly: the contacts it
                            \* observed and the candidates it promoted, in order
    now,                    \* the host's clock
    next_id,                \* the id the last next_tx_id returned, until inserted
    sent,                   \* how many queries the host has sent so far
    ret,                    \* the last call and what it returned
    fault,                  \* "none", or "panic" / "hang" once a call did not return
    buffer,                 \* msg_buffer.rs Buffer: [inbound, outbound]
    authored,               \* when each message of buffer.outbound was authored
    manager,                \* transaction::Manager: [next_id, transactions]
    rtable                  \* routing.rs Table

nodeVars == <<config, routing_table, find_pivot_id_deadline, tx_manager, find_node_ops, next_id, lookup_log>>
coreVars == <<buffer, authored, manager, rtable>>
vars == <<nodeVars, coreVars, now, sent, ret, fault>>

\* the parts of the state a scenario of lib.rs::Node does not use
TableIdle == rtable = [pivot |-> NoId, buckets |-> <<>>, max_nodes_per_bucket |-> 0]
CoreIdle == buffer = <<>> /\ authored = <<>> /\ manager = <<>> /\ TableIdle

\* Node::new at time 0 with the known contacts addr_ids and no bootstrap address
NodeInit(local_id, strict, addr_ids) ==
    \E r \in {Node_new_table(Ok(cb_Table_new(local_id, 0)), addr_ids, 0)} :
        /\ config = [local_id |-> local_id, strict |-> strict]
        /\ routing_table = r.table
        /\ find_pivot_id_deadline = 0 + FIND_LOCAL_ID_INTERVAL
        /\ tx_manager = <<>>
        /\ find_node_ops = Node_find_node_pivot(r.table, <<>>, <<>>, 0)
        /\ lookup_log = NoLog
        /\ now = 0
        /\ next_id = None
        /\ sent = 0
        /\ ret = [op |-> "new"]
        /\ fault = r.fault
        /\ CoreIdle

\* the same node later in its life: every known record has reached the karma
\* given (by that many responses or timeouts), no transaction is outstanding
NodeInitAged(local_id, strict, addr_ids, karma) ==
    \E r \in {Node_new_table(Ok(cb_Table_new(local_id, 0)), addr_ids, 0)} :
        /\ config = [local_id |-> local_id, strict |-> strict]
        /\ routing_table =
             [r.table EXCEPT !.buckets =
                 [i \in 1..Len(@) |->
                     [@[i] EXCEPT !.nodes =
                         [j \in 1..Len(@) |-> [@[j] EXCEPT !.karma = karma]]]]]
        /\ find_pivot_id_deadline = 0 + FIND_LOCAL_ID_INTERVAL
        /\ tx_manager = <<>>
        /\ find_node_ops = Node_find_node_pivot(r.table, <<>>, <<>>, 0)
        /\ lookup_log = NoLog
        /\ now = 0
        /\ next_id = None
        /\ sent = 0
        /\ ret = [op |-> "new"]
        /\ fault = r.fault
        /\ CoreIdle

\* Node::next_tx_id with the random draw num
NextTxId(num) ==
    /\ fault = "none"
    /\ \E r \in {Node_next_tx_id(tx_manager, num)} :
           /\ next_id' = r.tx_id
           /\ ret' = [op |-> "next_tx_id", num |-> num, res |-> r.res, tx_id |-> r.tx_id]
           /\ fault' = IF r.res = "hang" THEN "hang" ELSE fault
    /\ UNCHANGED <<config, routing_table, find_pivot_id_deadline, tx_manager, find_node_ops, now, sent, lookup_log, coreVars>>

\* Node::insert_tx of Transaction::new(addr_opt_id, tx_id, now + timeout), tx_id
\* being the id the preceding next_tx_id returned; the host sends at most budget
\* queries
InsertTx(addr, id, timeout, budget) ==
    /\ fault = "none"
    /\ IsSome(next_id)
    /\ sent < budget
    /\ sent' = sent + 1
    /\ tx_manager' = Transactions_insert(tx_manager,
                        Transaction(addr, id, Unwrap(next_id), now + timeout))
    /\ next_id' = None
    /\ ret' = [op |-> "insert_tx"]
    /\ UNCHANGED <<config, routing_table, find_pivot_id_deadline, find_node_ops, now, fault, lookup_log, coreVars>>

\* Node::on_recv
OnRecv(value, addr) ==
    /\ fault = "none"
    /\ \E r \in {Node_on_recv_with_now(config, routing_table, tx_manager, find_node_ops,
                                        value, addr, now)} :
           /\ routing_table' = r.table
           /\ tx_manager' = r.txs
           /\ find_node_ops' = r.ops
           /\ fault' = r.fault
           /\ ret' = [op |-> "on_recv", value |-> value, addr |-> addr, event |-> r.event]
    /\ UNCHANGED <<config, find_pivot_id_deadline, now, next_id, sent, lookup_log, coreVars>>

\* Node::pop_timed_out_tx(now)
PopTimedOutTx ==
    /\ fault = "none"
    /\ IF timed_out(tx_manager, now) = {}
       THEN /\ ret' = [op |-> "pop_timed_out_tx", tx |-> None]
            /\ UNCHANGED <<routing_table, tx_manager, find_node_ops>>
       ELSE \E i \in timed_out(tx_manager, now) :
              \E r \in {Node_pop_timed_out_tx(routing_table, tx_manager, find_node_ops, i)} :
                  /\ routing_table' = r.table
                  /\ tx_manager' = r.txs
                  /\ find_node_ops' = r.ops
                  /\ ret' = [op |-> "pop_timed_out_tx", tx |-> r.tx]
    /\ UNCHANGED <<config, find_pivot_id_deadline, now, next_id, sent, fault, lookup_log, coreVars>>

\* time passes
Tick(d, horizon) ==
    /\ fault = "none"
    /\ now + d <= horizon
    /\ now' = now + d
    /\ ret' = [op |-> "tick"]
    /\ UNCHANGED <<nodeVars, sent, fault, coreVars>>

Opt(S) == {None} \cup {Some(x) : x \in S}

\* ------------------------------------------- scenario: transaction ids only
\* A node with an empty routing table; the host allocates ids, inserts
\* transactions that carry no node id, and receives responses and errors.
TxIdMsgs == [y : {"r", "e"}, id : {None}, t : Opt(TxIds)]

InitTxIds == NodeInit(0, TRUE, <<>>)

NextTxIds ==
    \/ \E num \in TxIds : NextTxId(num)
    \/ InsertTx(1, None, 0, MaxSent)
    \/ \E value \in TxIdMsgs : OnRecv(value, 1)
    \/ PopTimedOutTx

SpecTxIds == InitTxIds /\ [][NextTxIds]_vars

\* ------------------------------------------------ scenario: query timeouts
\* A node that knows the contact (addr 1, id 1), whose record has any of a few
\* karma values.  The host sends queries to that contact, to the same id at
\* another address and to addresses whose id it does not know; queries are
\* answered by the contact or time out.
KarmaSeeds == {I8_MIN, I8_MIN + 1, 0}
TimeoutMsgs == [y : {"r"}, id : {Some(1)}, t : {Some(0), Some(1)}]

InitTimeout == \E karma \in KarmaSeeds : NodeInitAged(0, TRUE, <<AddrId(1, 1)>>, karma)

NextTimeout ==
    \/ NextTxId(0)
    \/ \E addr \in Addrs, id \in Opt({1}), timeout \in {0, 1} : InsertTx(addr, id, timeout, TimeoutSent)
    \/ \E value \in TimeoutMsgs : OnRecv(value, 1)
    \/ PopTimedOutTx
    \/ Tick(1, TimeoutHorizon)

SpecTimeout == InitTimeout /\ [][NextTimeout]_vars

\* the record of a contact, if the table holds one
record_of(table, addr_id) ==
    LET i == cb_Table_find_mut(table, addr_id.id)
        j == find_addr_id(table.buckets[i].nodes, addr_id)
    IN  IF j = 0 THEN None ELSE Some(table.buckets[i].nodes[j])

PopReturned == ret'.op = "pop_timed_out_tx" /\ IsSome(ret'.tx)

\* what every pop_timed_out_tx step does to the store
PopTakesTimedOut ==
    /\ PopReturned =>
          LET tx == Unwrap(ret'.tx)
          IN  /\ tx.deadline <= now
              /\ \E i \in 1..Len(tx_manager) :
                    tx_manager[i] = tx /\ tx_manager' = remove_at(tx_manager, i)
    /\ (ret'.op = "pop_timed_out_tx" /\ ~IsSome(ret'.tx)) =>
          \A i \in 1..Len(tx_manager) : tx_manager[i].deadline > now

\* C9 as stated: pop_timed_out_tx(now) returns a held transaction only when its
\* deadline has passed, removes it (so it is returned once), returns one
\* whenever one has timed out, and the record with the transaction's address
\* and expected id, if the table holds one, loses exactly 1 karma.
C9_PopDecrementsKarma ==
    [][/\ PopTakesTimedOut
       /\ (PopReturned /\ IsSome(Unwrap(ret'.tx).id)) =>
             LET tx == Unwrap(ret'.tx)
                 who == AddrId(tx.addr, Unwrap(tx.id))
                 before == record_of(routing_table, who)
                 after == record_of(routing_table', who)
             IN  IsSome(before) =>
                    /\ IsSome(after)
                    /\ Unwrap(after).karma = Unwrap(before).karma - 1]_vars

\* C9 amended: as above, but the karma is decreased by 1 only down to -128,
\* where it stays.
C9_PopDecrementsKarmaSaturating ==
    [][/\ PopTakesTimedOut
       /\ (PopReturned /\ IsSome(Unwrap(ret'.tx).id)) =>
             LET tx == Unwrap(ret'.tx)
                 who == AddrId(tx.addr, Unwrap(tx.id))
                 before == record_of(routing_table, who)
                 after == record_of(routing_table', who)
             IN  IsSome(before) =>
                    /\ IsSome(after)
                    /\ Unwrap(after).karma =
                          IF Unwrap(before).karma = I8_MIN THEN I8_MIN
                          ELSE Unwrap(before).karma - 1]_vars

\* a query to the known contact, held while now < deadline, has just timed out:
\* its record lost karma
C9_Witness ==
    /\ ret.op = "pop_timed_out_tx"
    /\ IsSome(ret.tx)
    /\ Unwrap(ret.tx).deadline = 1
    /\ now = 1
    /\ Unwrap(ret.tx).id = Some(1)
    /\ IsSome(record_of(routing_table, AddrId(Unwrap(ret.tx).addr, 1)))
    /\ Unwrap(record_of(routing_table, AddrId(Unwrap(ret.tx).addr, 1))).karma = 0 - 1

\* ------------------------------------------- scenario: strict node-id check
\* A node, strict or not, that knows the contact (addr 1, id 1) and queries
\* addr 1 expecting id 1, id ID_MAX or no particular id; responses and errors
\* arrive from either address with any of these ids, its own id or none.
StrictMsgs == [y : {"r", "e"}, id : Opt({0, 1, ID_MAX}), t : Opt({0, 1})]

InitStrict == \E strict \in BOOLEAN : NodeInit(0, strict, <<AddrId(1, 1)>>)

NextStrict ==
    \/ NextTxId(0)
    \/ \E id \in Opt({1, ID_MAX}) : InsertTx(1, id, 1, StrictSent)
    \/ \E value \in StrictMsgs, addr \in Addrs : OnRecv(value, addr)

SpecStrict == InitStrict /\ [][NextStrict]_vars

\* an on_recv step for a response
RecvResponse == ret'.op = "on_recv" /\ ret'.value.y = "r"

\* the held transaction a response's t names, 0 if none
matched(value) == IF IsSome(value.t) THEN find_tx(tx_manager, Unwrap(value.t)) ELSE 0

Rejected == ret'.event.res = "Err" /\ ret'.event.kind = "InvalidInput"

\* C10: with strict checking, a response that names a held transaction with
\* expected id X and carries r.id = Y # X makes on_recv return InvalidInput and
\* consumes the transaction; a response whose id names no held transaction
\* (such as a repeat of the rejected one) is rejected and changes nothing.
C10_StrictMismatchConsumes ==
    [][RecvResponse =>
         LET value == ret'.value
             i == matched(value)
         IN  /\ (/\ config.strict
                 /\ i # 0
                 /\ IsSome(tx_manager[i].id)
                 /\ IsSome(value.id)
                 /\ value.id # tx_manager[i].id)
                => /\ Rejected
                   /\ tx_manager' = remove_at(tx_manager, i)
                   /\ ~Transactions_contains(tx_manager', Unwrap(value.t))
                   /\ routing_table' = routing_table
             /\ i = 0 => /\ Rejected
                         /\ tx_manager' = tx_manager
                         /\ routing_table' = routing_table]_vars

\* a response with the wrong r.id has just been rejected and its transaction
\* is gone although its deadline has not passed
C10_Witness ==
    /\ config.strict
    /\ ret.op = "on_recv"
    /\ ret.value = [y |-> "r", id |-> Some(ID_MAX), t |-> Some(0)]
    /\ ret.event.kind = "InvalidInput"
    /\ sent = 1
    /\ tx_manager = <<>>
    /\ now = 0

\* ------------------------------------------------ claims on transaction ids
\* C5: no two held transactions share a tx_id, and the id next_tx_id has just
\* returned is not held.
C5_TxIdsUnique ==
    /\ \A i, j \in 1..Len(tx_manager) :
          i # j => tx_manager[i].tx_id # tx_manager[j].tx_id
    /\ (ret.op = "next_tx_id" /\ ret.res = "Ok") =>
          ~Transactions_contains(tx_manager, Unwrap(ret.tx_id))

\* next_tx_id has just probed past a held id while two transactions are held
C5_Witness ==
    /\ Len(tx_manager) >= 2
    /\ ret.op = "next_tx_id"
    /\ ret.res = "Ok"
    /\ Transactions_contains(tx_manager, ret.num)

\* C6: next_tx_id returns a free id whenever some id is free, and fails exactly
\* when every id is held.
C6_NextTxIdFailsOnlyWhenFull ==
    ret.op = "next_tx_id" =>
        LET free == {id \in TxIds : ~Transactions_contains(tx_manager, id)}
        IN  /\ (free # {}) => (ret.res = "Ok" /\ Unwrap(ret.tx_id) \in free)
            /\ (ret.res = "Err") <=> (free = {})

\* ------------------------------------ msg_buffer.rs and transaction::Manager
\* transaction::Manager: the next id to hand out and the transactions in flight
Manager_new(first) == [next_id |-> first, transactions |-> <<>>]

\* Manager::next_transaction_id: the counter's value, the counter moved on
Manager_next_transaction_id(m) ==
    [tx_id |-> m.next_id, manager |-> [m EXCEPT !.next_id = Id_next_tx(@)]]

Manager_insert(m, tx) == [m EXCEPT !.transactions = Append(@, tx)]

AddrOptId(addr, id) == [addr |-> addr, id |-> id]

OutboundMsg(tx_id, timeout, addr_opt_id, msg_data) ==
    [tx_id |-> tx_id, timeout |-> timeout, addr_opt_id |-> addr_opt_id,
     msg_data |-> msg_data]

\* the transaction's deadline taken from the authoring timeout alone
OutboundMsg_into_transaction_unclocked(msg, instant) ==
    IF IsSome(msg.tx_id)
    THEN Some([tx_id |-> Unwrap(msg.tx_id), addr_opt_id |-> msg.addr_opt_id,
               deadline |-> msg.timeout])
    ELSE None

\* OutboundMsg::into_transaction, instant being what Instant::now() returns
OutboundMsg_into_transaction(msg, instant) ==
    IF IsSome(msg.tx_id)
    THEN Some([tx_id |-> Unwrap(msg.tx_id), addr_opt_id |-> msg.addr_opt_id,
               deadline |-> instant + msg.timeout])
    ELSE None

Buffer_new == [inbound |-> <<>>, outbound |-> <<>>]

\* Buffer::write_query; serialized says whether bt_bencode::to_vec succeeded
Buffer_write_query(buf, m, addr_opt_id, timeout, serialized) ==
    LET r == Manager_next_transaction_id(m)
        msg == OutboundMsg(Some(r.tx_id), timeout, addr_opt_id,
                           [y |-> "q", t |-> r.tx_id])
    IN  IF serialized
        THEN [buffer |-> [buf EXCEPT !.outbound = Append(@, msg)],
              manager |-> r.manager, res |-> Some(r.tx_id)]
        ELSE [buffer |-> buf, manager |-> r.manager, res |-> None]

\* a reply queued as if it were a query of its own
Buffer_write_reply_tracked(buf, y, transaction_id, addr_opt_id, serialized) ==
    LET msg == OutboundMsg(Some(transaction_id), 0, addr_opt_id,
                           [y |-> y, t |-> transaction_id])
    IN  IF serialized
        THEN [buffer |-> [buf EXCEPT !.outbound = Append(@, msg)], res |-> Some(TRUE)]
        ELSE [buffer |-> buf, res |-> None]

\* Buffer::write_resp (y = "r") and Buffer::write_err (y = "e"), which differ
\* in the envelope only
Buffer_write_reply(buf, y, transaction_id, addr_opt_id, serialized) ==
    LET msg == OutboundMsg(None, 0, addr_opt_id, [y |-> y, t |-> transaction_id])
    IN  IF serialized
        THEN [buffer |-> [buf EXCEPT !.outbound = Append(@, msg)], res |-> Some(TRUE)]
        ELSE [buffer |-> buf, res |-> None]

\* Buffer::pop_outbound
Buffer_pop_outbound(buf) ==
    IF buf.outbound = <<>>
    THEN [msg |-> None, buffer |-> buf]
    ELSE [msg |-> Some(Head(buf.outbound)),
          buffer |-> [buf EXCEPT !.outbound = Tail(@)]]

\* the parts of the state a scenario of the buffer does not use
NodeIdle ==
    /\ config = [local_id |-> NoId, strict |-> FALSE]
    /\ routing_table = [pivot |-> NoId, buckets |-> <<>>]
    /\ find_pivot_id_deadline = 0
    /\ tx_manager = <<>>
    /\ find_node_ops = <<>>
    /\ lookup_log = NoLog
    /\ next_id = None

WriteQuery(addr, timeout, serialized, budget) ==
    /\ sent < budget
    /\ sent' = sent + 1
    /\ LET r == Buffer_write_query(buffer, manager, AddrOptId(addr, None), timeout,
                                   serialized)
       IN  /\ buffer' = r.buffer
           /\ manager' = r.manager
           /\ authored' = IF serialized THEN Append(authored, now) ELSE authored
           /\ ret' = [op |-> "write_query", timeout |-> timeout, res |-> r.res]
    /\ UNCHANGED <<nodeVars, rtable, now, fault>>

WriteResp(transaction_id, addr, serialized, budget) ==
    /\ sent < budget
    /\ sent' = sent + 1
    /\ LET r == Buffer_write_reply(buffer, "r", transaction_id, AddrOptId(addr, None),
                                   serialized)
       IN  /\ buffer' = r.buffer
           /\ authored' = IF serialized THEN Append(authored, now) ELSE authored
           /\ ret' = [op |-> "write_resp", res |-> r.res]
    /\ UNCHANGED <<nodeVars, manager, rtable, now, fault>>

WriteErr(transaction_id, addr, serialized, budget) ==
    /\ sent < budget
    /\ sent' = sent + 1
    /\ LET r == Buffer_write_reply(buffer, "e", transaction_id, AddrOptId(addr, None),
                                   serialized)
       IN  /\ buffer' = r.buffer
           /\ authored' = IF serialized THEN Append(authored, now) ELSE authored
           /\ ret' = [op |-> "write_err", res |-> r.res]
    /\ UNCHANGED <<nodeVars, manager, rtable, now, fault>>

\* send_to: pop_outbound, the datagram handed to the socket, and the
\* transaction of a query put into the manager
SendTo ==
    /\ LET r == Buffer_pop_outbound(buffer)
           tx == OutboundMsg_into_transaction(Unwrap(r.msg), now)
       IN  IF IsSome(r.msg)
           THEN /\ buffer' = r.buffer
                /\ authored' = Tail(authored)
                /\ manager' = IF IsSome(tx) THEN Manager_insert(manager, Unwrap(tx))
                              ELSE manager
                /\ ret' = [op |-> "send_to", msg |-> r.msg, tx |-> tx,
                           authored |-> Head(authored)]
           ELSE /\ ret' = [op |-> "send_to", msg |-> None, tx |-> None, authored |-> now]
                /\ UNCHANGED <<buffer, authored, manager>>
    /\ UNCHANGED <<nodeVars, rtable, now, sent, fault>>

\* the manager drops a transaction whose deadline has passed
ManagerTimeout ==
    /\ \E i \in timed_out(manager.transactions, now) :
          manager' = [manager EXCEPT !.transactions = remove_at(@, i)]
    /\ ret' = [op |-> "manager_timeout"]
    /\ UNCHANGED <<nodeVars, buffer, authored, rtable, now, sent, fault>>

\* ------------------------------------------------- scenario: outbound queue
\* The host authors queries, responses and errors, drains the queue with
\* send_to, and time passes in between.
InitBuffer ==
    /\ NodeIdle
    /\ buffer = Buffer_new
    /\ authored = <<>>
    /\ \E first \in {0, TX_ID_MAX} : manager = Manager_new(first)
    /\ TableIdle
    /\ now = 0
    /\ sent = 0
    /\ ret = [op |-> "new"]
    /\ fault = "none"

NextBuffer ==
    \/ \E timeout \in {1, 2}, serialized \in BOOLEAN :
          WriteQuery(1, timeout, serialized, BufferSent)
    \/ \E serialized \in BOOLEAN : WriteResp(0, 1, serialized, BufferSent)
    \/ \E serialized \in BOOLEAN : WriteErr(0, 1, serialized, BufferSent)
    \/ SendTo
    \/ ManagerTimeout
    \/ Tick(1, BufferHorizon)

SpecBuffer == InitBuffer /\ [][NextBuffer]_vars

\* the transactions the step has put into the manager
created == {i \in 1..Len(manager'.transactions) :
               \A j \in 1..Len(manager.transactions) :
                   manager.transactions[j] # manager'.transactions[i]}

\* C7: write_query appends the query to the outbound queue and creates no
\* transaction; write_resp and write_err append a message that never yields a
\* transaction; a transaction comes into the manager only in the send_to step
\* that dequeues a query, and it carries that query's tx id.
C7_TransactionOnlyAfterPop ==
    [][/\ ret'.op = "write_query" =>
             /\ manager'.transactions = manager.transactions
             /\ IsSome(ret'.res) =>
                   /\ Len(buffer'.outbound) = Len(buffer.outbound) + 1
                   /\ SubSeq(buffer'.outbound, 1, Len(buffer.outbound)) = buffer.outbound
                   /\ buffer'.outbound[Len(buffer'.outbound)].tx_id = ret'.res
       /\ ret'.op \in {"write_resp", "write_err"} =>
             /\ manager' = manager
             /\ IsSome(ret'.res) =>
                   /\ Len(buffer'.outbound) = Len(buffer.outbound) + 1
                   /\ OutboundMsg_into_transaction(
                          buffer'.outbound[Len(buffer'.outbound)], now) = None
       /\ Len(manager'.transactions) > Len(manager.transactions) =>
             /\ ret'.op = "send_to"
             /\ buffer.outbound # <<>>
             /\ ret'.msg = Some(Head(buffer.outbound))
             /\ buffer'.outbound = Tail(buffer.outbound)
             /\ Head(buffer.outbound).msg_data.y = "q"
             /\ manager'.transactions = Append(manager.transactions, Unwrap(ret'.tx))
             /\ Some(Unwrap(ret'.tx).tx_id) = Head(buffer.outbound).tx_id
       /\ (ret'.op = "send_to" /\ buffer.outbound # <<>>
             /\ Head(buffer.outbound).msg_data.y # "q") =>
             manager' = manager]_vars

\* a query that waited in the queue has just been dequeued and has left the
\* only transaction; the reply queued behind it is still waiting
C7_Witness ==
    /\ ret.op = "send_to"
    /\ IsSome(ret.tx)
    /\ ret.authored < now
    /\ Len(buffer.outbound) = 1
    /\ buffer.outbound[1].tx_id = None
    /\ manager.transactions = <<Unwrap(ret.tx)>>

\* C8: the transaction made for a dequeued query has deadline = the time of the
\* dequeue + the timeout given to write_query, however long the message waited;
\* a queued message keeps the timeout it was authored with.
C8_DeadlineFromDequeue ==
    [][/\ (ret'.op = "write_query" /\ IsSome(ret'.res)) =>
             buffer'.outbound[Len(buffer'.outbound)].timeout = ret'.timeout
       /\ (ret'.op = "send_to" /\ buffer.outbound # <<>>) =>
             LET msg == Head(buffer.outbound)
             IN  IsSome(msg.tx_id) =>
                    /\ IsSome(ret'.tx)
                    /\ Unwrap(ret'.tx).deadline = now + msg.timeout
       /\ \/ buffer'.outbound = buffer.outbound
          \/ buffer.outbound # <<>> /\ buffer'.outbound = Tail(buffer.outbound)
          \/ /\ Len(buffer'.outbound) = Len(buffer.outbound) + 1
             /\ SubSeq(buffer'.outbound, 1, Len(buffer.outbound)) = buffer.outbound]_vars

\* a query authored at time 0 with timeout 2 is dequeued at time 2: deadline 4
C8_Witness ==
    /\ ret.op = "send_to"
    /\ IsSome(ret.tx)
    /\ ret.authored = 0
    /\ now = 2
    /\ Unwrap(ret.msg).timeout = 2
    /\ Unwrap(ret.tx).deadline = 4

\* ---------------------------------------------- routing.rs: the remote node
\* A contact of routing.rs is [addr, id] with id an Option.  RemoteNode keeps
\* the karma and the two deadlines of the record, the deadlines unset until the
\* first message, and the time of the ping in flight.
RemoteNode_with_addr_id(addr_id) ==
    [addr_id |-> addr_id, karma |-> 0, next_response_deadline |-> None,
     next_query_deadline |-> None, last_pinged |-> None]

RemoteNode_state_with_now(n, instant) ==
    IF \/ IsSome(n.next_response_deadline) /\ instant < Unwrap(n.next_response_deadline)
       \/ IsSome(n.next_query_deadline) /\ instant < Unwrap(n.next_query_deadline)
    THEN "Good"
    ELSE IF n.karma < KARMA_BAD THEN "Bad" ELSE "Questionable"

RemoteNode_next_msg_deadline(n) ==
    LET ds == Range(n.next_response_deadline) \cup Range(n.next_query_deadline)
    IN  IF ds = {} THEN None ELSE Some(Max(ds))

RemoteNode_on_msg_received(n, kind, instant) ==
    CASE kind = "Response" ->
           [n EXCEPT !.last_pinged = None,
                     !.next_response_deadline = Some(instant + TIMEOUT_INTERVAL),
                     !.karma = saturating_add1_clamped(@)]
      [] kind = "Query" ->
           [n EXCEPT !.next_query_deadline = Some(instant + TIMEOUT_INTERVAL)]
      [] kind = "Error" ->
           [n EXCEPT !.last_pinged = None,
                     !.next_response_deadline = Some(instant + TIMEOUT_INTERVAL),
                     !.karma = saturating_sub1(@)]
      [] OTHER ->
           [n EXCEPT !.last_pinged = None, !.karma = saturating_sub1(@)]

RemoteNode_on_resp_timeout(n) ==
    [n EXCEPT !.karma = saturating_sub1(@), !.last_pinged = None]

RemoteNode_on_ping(n, instant) == [n EXCEPT !.last_pinged = Some(instant)]

\* ------------------------------------------------------ routing.rs: Bucket
\* Bucket::new; clock is what Instant::now() returns
Bucket_new(lo, hi, clock) ==
    [lo |-> lo, hi |-> hi, nodes |-> <<>>, replacement_nodes |-> <<>>,
     expected_change_deadline |-> clock + BUCKET_NEW_INTERVAL]

Bucket_update_expected_change_deadline(b, clock) ==
    [b EXCEPT !.expected_change_deadline = clock + EXPECT_CHANGE_INTERVAL]

state_rank(n, instant) ==
    CASE RemoteNode_state_with_now(n, instant) = "Good" -> 0
      [] RemoteNode_state_with_now(n, instant) = "Questionable" -> 1
      [] OTHER -> 2

\* the comparator of Bucket::sort_node_ids: TRUE when a sorts before b
sorts_before(a, b, instant) ==
    LET da == RemoteNode_next_msg_deadline(a)
        db == RemoteNode_next_msg_deadline(b)
    IN  \/ state_rank(a, instant) < state_rank(b, instant)
        \/ /\ state_rank(a, instant) = state_rank(b, instant)
           /\ \/ IsSome(da) /\ ~IsSome(db)
              \/ IsSome(da) /\ IsSome(db) /\ Unwrap(db) < Unwrap(da)

\* n put into a sorted sequence; among equals it goes last when stable and
\* first otherwise
RECURSIVE sorted_insert(_, _, _, _)
sorted_insert(sorted, n, instant, stable) ==
    IF sorted = <<>> THEN <<n>>
    ELSE IF \/ sorts_before(n, Head(sorted), instant)
            \/ ~stable /\ ~sorts_before(Head(sorted), n, instant)
         THEN <<n>> \o sorted
         ELSE <<Head(sorted)>> \o sorted_insert(Tail(sorted), n, instant, stable)

RECURSIVE sort_nodes(_, _, _)
sort_nodes(nodes, instant, stable) ==
    IF nodes = <<>> THEN <<>>
    ELSE sorted_insert(sort_nodes(SubSeq(nodes, 1, Len(nodes) - 1), instant, stable),
                       nodes[Len(nodes)], instant, stable)

\* Bucket::sort_node_ids; sort_unstable_by leaves the order of equal records
\* open, stable picks one of the two orders it can produce
Bucket_sort_node_ids(b, instant, stable) ==
    [b EXCEPT !.nodes = sort_nodes(@, instant, stable)]

\* nodes.iter().rev().position(state): the 0-based position, counted from the
\* back, of the last record in that state; None if there is none
rev_position(nodes, state, instant) ==
    LET hits == {k \in 1..Len(nodes) :
                    RemoteNode_state_with_now(nodes[Len(nodes) + 1 - k], instant) = state}
    IN  IF hits = {} THEN None ELSE Some(Min(hits) - 1)

\* self.nodes[pos] = node, pos 0-based
set_node(b, pos, node) == [b EXCEPT !.nodes[pos + 1] = node]

\* Bucket::try_insert
Bucket_try_insert(b, max_nodes_per_bucket, addr_id, instant, clock, stable) ==
    LET node == RemoteNode_with_addr_id(addr_id)
        bad == rev_position(b.nodes, "Bad", instant)
        sorted == Bucket_sort_node_ids(b, instant, stable)
        questionable == rev_position(sorted.nodes, "Questionable", instant)
    IN  IF Len(b.nodes) < max_nodes_per_bucket
        THEN Bucket_update_expected_change_deadline(
                 Bucket_sort_node_ids([b EXCEPT !.nodes = Append(@, node)], instant, stable),
                 clock)
        ELSE IF IsSome(bad)
        THEN Bucket_update_expected_change_deadline(
                 Bucket_sort_node_ids(set_node(b, Unwrap(bad), node), instant, stable),
                 clock)
        ELSE IF IsSome(questionable)
        THEN Bucket_update_expected_change_deadline(
                 set_node(sorted, Unwrap(questionable), node), clock)
        ELSE sorted

\* Bucket::max_replacement_nodes
Bucket_max_replacement_nodes(b, instant) ==
    Cardinality({i \in 1..Len(b.nodes) :
                    RemoteNode_state_with_now(b.nodes[i], instant) = "Questionable"})

\* what a bucket operation that may write a ping leaves behind
BucketResult(b, m, buf, what) == [bucket |-> b, manager |-> m, buffer |-> buf, fault |-> what]

\* a ping sent also when as many Questionable nodes are pinged as there are
\* replacements
ping_when_not_fewer(b, m, buf, instant) ==
    LET questionable == {i \in 1..Len(b.nodes) :
                            RemoteNode_state_with_now(b.nodes[i], instant) = "Questionable"}
        pinged == {i \in questionable : IsSome(b.nodes[i].last_pinged)}
        free == questionable \ pinged
        i == Max(free)
        w == Buffer_write_query(buf, m, b.nodes[i].addr_id, DEFAULT_QUERY_TIMEOUT, TRUE)
    IN  IF Cardinality(pinged) <= Len(b.replacement_nodes)
        THEN IF free = {}
             THEN BucketResult(b, m, buf, "panic")
             ELSE BucketResult([b EXCEPT !.nodes[i] = RemoteNode_on_ping(@, instant)],
                               w.manager, w.buffer, "none")
        ELSE BucketResult(b, m, buf, "none")

\* Bucket::ping_least_recently_seen_questionable_node; the ping query always
\* serializes
Bucket_ping_least_recently_seen_questionable_node(b, m, buf, instant) ==
    LET questionable == {i \in 1..Len(b.nodes) :
                            RemoteNode_state_with_now(b.nodes[i], instant) = "Questionable"}
        pinged == {i \in questionable : IsSome(b.nodes[i].last_pinged)}
        free == questionable \ pinged
        i == Max(free)
        w == Buffer_write_query(buf, m, b.nodes[i].addr_id, DEFAULT_QUERY_TIMEOUT, TRUE)
    IN  IF Cardinality(pinged) < Len(b.replacement_nodes)
        THEN IF free = {}
             THEN BucketResult(b, m, buf, "panic")
             ELSE BucketResult([b EXCEPT !.nodes[i] = RemoteNode_on_ping(@, instant)],
                               w.manager, w.buffer, "none")
        ELSE BucketResult(b, m, buf, "none")

\* the position of the first record with this addr_id, 0 if none
find_node_pos(nodes, addr_id) ==
    LET hits == {i \in 1..Len(nodes) : nodes[i].addr_id = addr_id}
    IN  IF hits = {} THEN 0 ELSE Min(hits)

\* replacement_nodes.pop() swapped into slot i, if there is a replacement
swap_in_replacement(b, i, clock) ==
    IF b.replacement_nodes = <<>> THEN b
    ELSE Bucket_update_expected_change_deadline(
             [b EXCEPT !.nodes[i] = b.replacement_nodes[Len(b.replacement_nodes)],
                       !.replacement_nodes = SubSeq(@, 1, Len(@) - 1)],
             clock)

\* Bucket::on_msg_received for a contact the bucket holds at position i
Bucket_on_msg_received_known(b, i, kind, m, buf, instant, clock, stable) ==
    LET node == RemoteNode_on_msg_received(b.nodes[i], kind, instant)
        b1 == [b EXCEPT !.nodes[i] = node]
        max_replacement_nodes == Bucket_max_replacement_nodes(b1, instant)
        drained == IF Len(b1.replacement_nodes) > max_replacement_nodes
                   THEN [b1 EXCEPT !.replacement_nodes = SubSeq(@, 1, max_replacement_nodes)]
                   ELSE b1
        pinged == Bucket_ping_least_recently_seen_questionable_node(
                      Bucket_sort_node_ids(drained, instant, stable), m, buf, instant)
        state == RemoteNode_state_with_now(node, instant)
    IN  IF kind \in {"Response", "Query"}
        THEN IF pinged.fault # "none" THEN pinged
             ELSE [pinged EXCEPT !.bucket = Bucket_update_expected_change_deadline(@, clock)]
        ELSE CASE state = "Good" ->
                    BucketResult(Bucket_sort_node_ids(b1, instant, stable), m, buf, "none")
               [] state = "Questionable" ->
                    Bucket_ping_least_recently_seen_questionable_node(
                        Bucket_sort_node_ids(b1, instant, stable), m, buf, instant)
               [] OTHER ->
                    BucketResult(Bucket_sort_node_ids(swap_in_replacement(b1, i, clock),
                                                      instant, stable),
                                 m, buf, "none")

\* Bucket::on_msg_received for a contact the bucket does not hold
Bucket_on_msg_received_new(b, max_nodes_per_bucket, addr_id, kind, m, buf, instant, clock, stable) ==
    LET node == RemoteNode_on_msg_received(RemoteNode_with_addr_id(addr_id), kind, instant)
        bad == rev_position(b.nodes, "Bad", instant)
    IN  IF kind = "Unknown" THEN BucketResult(b, m, buf, "none")
        ELSE IF Len(b.nodes) < max_nodes_per_bucket
        THEN BucketResult(
                 Bucket_update_expected_change_deadline(
                     Bucket_sort_node_ids([b EXCEPT !.nodes = Append(@, node)], instant, stable),
                     clock),
                 m, buf, "none")
        ELSE IF IsSome(bad)
        THEN BucketResult(
                 Bucket_update_expected_change_deadline(
                     Bucket_sort_node_ids(set_node(b, Unwrap(bad), node), instant, stable),
                     clock),
                 m, buf, "none")
        ELSE IF Len(b.replacement_nodes) < Bucket_max_replacement_nodes(b, instant)
        THEN Bucket_ping_least_recently_seen_questionable_node(
                 Bucket_sort_node_ids([b EXCEPT !.replacement_nodes = Append(@, node)],
                                      instant, stable),
                 m, buf, instant)
        ELSE BucketResult(b, m, buf, "none")

\* Bucket::on_msg_received
Bucket_on_msg_received(b, max_nodes_per_bucket, addr_id, kind, m, buf, instant, clock, stable) ==
    LET i == find_node_pos(b.nodes, addr_id)
    IN  IF i # 0
        THEN Bucket_on_msg_received_known(b, i, kind, m, buf, instant, clock, stable)
        ELSE Bucket_on_msg_received_new(b, max_nodes_per_bucket, addr_id, kind, m, buf,
                                        instant, clock, stable)

\* Bucket::on_resp_timeout
Bucket_on_resp_timeout(b, addr_id, m, buf, instant, clock, stable) ==
    LET i == find_node_pos(b.nodes, addr_id)
        node == RemoteNode_on_resp_timeout(b.nodes[i])
        b1 == [b EXCEPT !.nodes[i] = node]
        state == RemoteNode_state_with_now(node, instant)
    IN  IF i = 0 THEN BucketResult(b, m, buf, "none")
        ELSE CASE state = "Good" -> BucketResult(b1, m, buf, "none")
               [] state = "Questionable" ->
                    Bucket_ping_least_recently_seen_questionable_node(
                        Bucket_sort_node_ids(b1, instant, stable), m, buf, instant)
               [] OTHER ->
                    BucketResult(Bucket_sort_node_ids(swap_in_replacement(b1, i, clock),
                                                      instant, stable),
                                 m, buf, "none")

in_range(b, id) == b.lo <= id /\ id <= b.hi

\* a split whose upper half starts at the middle itself
Bucket_split_overlapping(b, clock) ==
    LET middle == Id_middle(b.hi, b.lo)
        lower == Bucket_new(b.lo, middle, clock)
        upper == Bucket_new(middle, b.hi, clock)
        low(n) == in_range(lower, Unwrap(n.addr_id.id))
    IN  << [lower EXCEPT !.nodes = SelectSeq(b.nodes, low),
                         !.replacement_nodes = SelectSeq(b.replacement_nodes, low)],
           [upper EXCEPT !.nodes = SelectSeq(b.nodes, LAMBDA n : ~low(n)),
                         !.replacement_nodes =
                             SelectSeq(b.replacement_nodes, LAMBDA n : ~low(n))] >>

\* a split that keeps in the lower half only the records below the middle
Bucket_split_below_middle(b, clock) ==
    LET middle == Id_middle(b.hi, b.lo)
        lower == Bucket_new(b.lo, middle, clock)
        upper == Bucket_new(Id_next(middle), b.hi, clock)
        low(n) == Unwrap(n.addr_id.id) < middle
    IN  << [lower EXCEPT !.nodes = SelectSeq(b.nodes, low),
                         !.replacement_nodes = SelectSeq(b.replacement_nodes, low)],
           [upper EXCEPT !.nodes = SelectSeq(b.nodes, LAMBDA n : ~low(n)),
                         !.replacement_nodes =
                             SelectSeq(b.replacement_nodes, LAMBDA n : ~low(n))] >>

\* Bucket::split: <<lower, upper>>
Bucket_split(b, clock) ==
    LET middle == Id_middle(b.hi, b.lo)
        lower == Bucket_new(b.lo, middle, clock)
        upper == Bucket_new(Id_next(middle), b.hi, clock)
        low(n) == in_range(lower, Unwrap(n.addr_id.id))
    IN  << [lower EXCEPT !.nodes = SelectSeq(b.nodes, low),
                         !.replacement_nodes = SelectSeq(b.replacement_nodes, low)],
           [upper EXCEPT !.nodes = SelectSeq(b.nodes, LAMBDA n : ~low(n)),
                         !.replacement_nodes =
                             SelectSeq(b.replacement_nodes, LAMBDA n : ~low(n))] >>

\* ------------------------------------------------------- routing.rs: Table
TableResult(t, m, buf, what) == [table |-> t, manager |-> m, buffer |-> buf, fault |-> what]

\* buckets.iter_mut().find(|n| n.range.contains(&node_id)): its position, 0 if none
Table_find_bucket(t, node_id) ==
    LET hits == {i \in 1..Len(t.buckets) : in_range(t.buckets[i], node_id)}
    IN  IF hits = {} THEN 0 ELSE Min(hits)

\* the bucket found is full and holds the pivot
must_split(t, i) ==
    /\ in_range(t.buckets[i], t.pivot)
    /\ Len(t.buckets[i].nodes) >= t.max_nodes_per_bucket

\* the two halves pushed back in range order
push_halves_in_order(t, first_bucket, second_bucket) ==
    [t EXCEPT !.buckets =
        SubSeq(t.buckets, 1, Len(t.buckets) - 1) \o <<first_bucket, second_bucket>>]

\* the two halves pushed back, the half with the pivot last
push_halves(t, first_bucket, second_bucket) ==
    LET front == SubSeq(t.buckets, 1, Len(t.buckets) - 1)
    IN  [t EXCEPT !.buckets =
            IF in_range(first_bucket, t.pivot)
            THEN front \o <<second_bucket, first_bucket>>
            ELSE front \o <<first_bucket, second_bucket>>]

\* Table::try_insert
Table_try_insert(t, addr_id, instant, clock, stable) ==
    LET node_id == Unwrap(addr_id.id)
        i == Table_find_bucket(t, node_id)
        halves == Bucket_split(t.buckets[Len(t.buckets)], clock)
        max == t.max_nodes_per_bucket
    IN  IF ~IsSome(addr_id.id) \/ node_id = t.pivot THEN TableResult(t, <<>>, <<>>, "none")
        ELSE IF i = 0 THEN TableResult(t, <<>>, <<>>, "panic")
        ELSE IF must_split(t, i)
        THEN TableResult(
                 IF in_range(halves[1], node_id)
                 THEN push_halves(t, Bucket_try_insert(halves[1], max, addr_id, instant,
                                                       clock, stable),
                                  halves[2])
                 ELSE push_halves(t, halves[1],
                                  Bucket_try_insert(halves[2], max, addr_id, instant,
                                                    clock, stable)),
                 <<>>, <<>>, "none")
        ELSE TableResult(
                 [t EXCEPT !.buckets[i] =
                     Bucket_try_insert(@, max, addr_id, instant, clock, stable)],
                 <<>>, <<>>, "none")

\* Table::new: the existing contacts inserted one by one
RECURSIVE Table_new_insert(_, _, _)
Table_new_insert(t, existing_addr_ids, clock) ==
    IF existing_addr_ids = <<>> THEN t
    ELSE Table_new_insert(
             Table_try_insert(t, Head(existing_addr_ids), clock, clock, TRUE).table,
             Tail(existing_addr_ids), clock)

Table_new(pivot, max_nodes_per_bucket, existing_addr_ids, clock) ==
    Table_new_insert([pivot |-> pivot,
                      buckets |-> <<Bucket_new(ID_MIN, ID_MAX, clock)>>,
                      max_nodes_per_bucket |-> max_nodes_per_bucket],
                     existing_addr_ids, clock)

\* Table::on_msg_received
Table_on_msg_received(t, addr_id, kind, m, buf, instant, clock, stable) ==
    LET node_id == Unwrap(addr_id.id)
        i == Table_find_bucket(t, node_id)
        halves == Bucket_split(t.buckets[Len(t.buckets)], clock)
        max == t.max_nodes_per_bucket
        into == IF in_range(halves[1], node_id) THEN 1 ELSE 2
        half == Bucket_on_msg_received(halves[into], max, addr_id, kind, m, buf, instant,
                                       clock, stable)
        whole == Bucket_on_msg_received(t.buckets[i], max, addr_id, kind, m, buf, instant,
                                        clock, stable)
    IN  IF ~IsSome(addr_id.id) \/ node_id = t.pivot THEN TableResult(t, m, buf, "none")
        ELSE IF i = 0 THEN TableResult(t, m, buf, "panic")
        ELSE IF must_split(t, i)
        THEN TableResult(
                 IF into = 1 THEN push_halves(t, half.bucket, halves[2])
                 ELSE push_halves(t, halves[1], half.bucket),
                 half.manager, half.buffer, half.fault)
        ELSE TableResult([t EXCEPT !.buckets[i] = whole.bucket],
                         whole.manager, whole.buffer, whole.fault)

\* Table::on_resp_timeout
Table_on_resp_timeout(t, addr_id, m, buf, instant, clock, stable) ==
    LET i == Table_find_bucket(t, Unwrap(addr_id.id))
        r == Bucket_on_resp_timeout(t.buckets[i], addr_id, m, buf, instant, clock, stable)
    IN  IF ~IsSome(addr_id.id) THEN TableResult(t, m, buf, "none")
        ELSE IF i = 0 THEN TableResult(t, m, buf, "panic")
        ELSE TableResult([t EXCEPT !.buckets[i] = r.bucket], r.manager, r.buffer, r.fault)

\* Table::timeout
Table_timeout(t) == Min({t.buckets[i].expected_change_deadline : i \in 1..Len(t.buckets)})

\* the authoring times of the outbound queue after a call at time instant
authored_after(buf, instant) ==
    authored \o [k \in 1..(Len(buf.outbound) - Len(authored)) |-> instant]

\* Table::try_insert(addr_id, now)
TableTryInsert(addr_id, stable, budget) ==
    /\ fault = "none"
    /\ sent < budget
    /\ sent' = sent + 1
    /\ \E r \in {Table_try_insert(rtable, addr_id, now, now, stable)} :
           /\ rtable' = r.table
           /\ fault' = r.fault
    /\ ret' = [op |-> "try_insert", addr_id |-> addr_id]
    /\ UNCHANGED <<nodeVars, buffer, authored, manager, now>>

\* Table::on_msg_received(addr_id, kind, .., now)
TableOnMsgReceived(addr_id, kind, stable, budget) ==
    /\ fault = "none"
    /\ sent < budget
    /\ sent' = sent + 1
    /\ \E r \in {Table_on_msg_received(rtable, addr_id, kind, manager, buffer, now, now, stable)} :
           /\ rtable' = r.table
           /\ manager' = r.manager
           /\ buffer' = r.buffer
           /\ authored' = authored_after(r.buffer, now)
           /\ fault' = r.fault
    /\ ret' = [op |-> "on_msg_received", addr_id |-> addr_id, kind |-> kind]
    /\ UNCHANGED <<nodeVars, now>>

\* Table::on_resp_timeout(addr_id, .., now)
TableOnRespTimeout(addr_id, stable, budget) ==
    /\ fault = "none"
    /\ sent < budget
    /\ sent' = sent + 1
    /\ \E r \in {Table_on_resp_timeout(rtable, addr_id, manager, buffer, now, now, stable)} :
           /\ rtable' = r.table
           /\ manager' = r.manager
           /\ buffer' = r.buffer
           /\ authored' = authored_after(r.buffer, now)
           /\ fault' = r.fault
    /\ ret' = [op |-> "on_resp_timeout", addr_id |-> addr_id]
    /\ UNCHANGED <<nodeVars, now>>

\* --------------------------------------------- scenario: the routing.rs table
\* A table around pivot 0 built from none, two or three known contacts that all
\* claim id 1, fresh or after each has let three queries time out.  These and
\* two more contacts, one that claims the pivot and one without id send
\* messages and let queries time out.
Contact(addr, id) == [addr |-> addr, id |-> Some(id)]
KnownContacts == <<Contact(1, 1), Contact(2, 1), Contact(3, 1)>>
TableContacts == Range(KnownContacts) \cup {Contact(1, 2), Contact(1, 5)}
NoContacts == {Contact(1, 0), [addr |-> 1, id |-> None]}
Kinds == {"Response", "Query", "Error", "Unknown"}
TableMsgs == (TableContacts \X Kinds) \cup (NoContacts \X {"Query"})

\* every record of the table with this karma
with_karma(t, karma) ==
    [t EXCEPT !.buckets =
        [i \in 1..Len(@) |->
            [@[i] EXCEPT !.nodes = [j \in 1..Len(@) |-> [@[j] EXCEPT !.karma = karma]]]]]

InitTable ==
    /\ NodeIdle
    /\ \E n \in {0, 2, Len(KnownContacts)}, karma \in {0, KARMA_BAD - 1} :
          rtable = with_karma(Table_new(0, MaxNodesPerBucket,
                                        SubSeq(KnownContacts, 1, n), 0), karma)
    /\ buffer = Buffer_new
    /\ authored = <<>>
    /\ manager = Manager_new(0)
    /\ now = 0
    /\ sent = 0
    /\ ret = [op |-> "new"]
    /\ fault = "none"

NextTable ==
    \/ \E addr_id \in TableContacts \cup NoContacts, stable \in BOOLEAN :
          TableTryInsert(addr_id, stable, TableOps)
    \/ \E msg \in TableMsgs, stable \in BOOLEAN :
          TableOnMsgReceived(msg[1], msg[2], stable, TableOps)
    \/ \E addr_id \in TableContacts, stable \in BOOLEAN :
          TableOnRespTimeout(addr_id, stable, TableOps)
    \/ Tick(EXPECT_CHANGE_INTERVAL, TableHorizon)

SpecTable == InitTable /\ [][NextTable]_vars

\* the ranges of the table's buckets
ranges(t) == {<<t.buckets[i].lo, t.buckets[i].hi>> : i \in 1..Len(t.buckets)}

\* every id lies in exactly one bucket's range
Partitioned(t) ==
    /\ \A i \in 1..Len(t.buckets) : t.buckets[i].lo <= t.buckets[i].hi
    /\ \A id \in Ids :
          Cardinality({i \in 1..Len(t.buckets) : in_range(t.buckets[i], id)}) = 1

\* the step either keeps the ranges or replaces one range [lo, hi] by
\* [lo, mid] and [mid + 1, hi], mid the midpoint
SplitsInHalves ==
    \/ /\ Len(rtable'.buckets) = Len(rtable.buckets)
       /\ ranges(rtable') = ranges(rtable)
    \/ /\ Len(rtable'.buckets) = Len(rtable.buckets) + 1
       /\ \E r \in ranges(rtable) :
             LET mid == (r[1] + r[2]) \div 2
             IN  /\ mid < r[2]
                 /\ ranges(rtable') =
                        (ranges(rtable) \ {r}) \cup {<<r[1], mid>>, <<mid + 1, r[2]>>}

\* C1: in routing.rs the bucket ranges are pairwise disjoint and cover the whole
\* id space after Table::new and every try_insert / on_msg_received, and every
\* split replaces a range [lo, hi] by exactly [lo, mid] and [mid.next(), hi].
C1_RangesPartition == []Partitioned(rtable) /\ [][SplitsInHalves]_vars

\* the table has been split down to the single-id ranges [1, 1] and [0, 0]
C1_Witness ==
    /\ Len(rtable.buckets) = 4
    /\ ranges(rtable) = {<<4, 7>>, <<2, 3>>, <<1, 1>>, <<0, 0>>}
    /\ Len(rtable.buckets[3].nodes) = MaxNodesPerBucket

\* the buckets whose range contains the pivot
pivot_buckets(t) == {i \in 1..Len(t.buckets) : in_range(t.buckets[i], t.pivot)}

\* a step that splits pops the bucket it found, which holds the pivot, and
\* leaves the other buckets where they were
SplitsFoundBucket ==
    Len(rtable'.buckets) # Len(rtable.buckets) =>
        LET last == Len(rtable.buckets)
        IN  /\ ret'.op \in {"try_insert", "on_msg_received"}
            /\ IsSome(ret'.addr_id.id)
            /\ Table_find_bucket(rtable, Unwrap(ret'.addr_id.id)) = last
            /\ in_range(rtable.buckets[last], rtable.pivot)
            /\ Len(rtable.buckets[last].nodes) >= rtable.max_nodes_per_bucket
            /\ SubSeq(rtable'.buckets, 1, last - 1) = SubSeq(rtable.buckets, 1, last - 1)

\* C3: in routing.rs exactly one bucket's range contains the pivot, it is the
\* last bucket, and every split is applied to it: the bucket buckets.pop()
\* takes is the one found to hold the incoming id and the pivot.
C3_PivotBucketLast ==
    /\ [](pivot_buckets(rtable) = {Len(rtable.buckets)})
    /\ [][SplitsFoundBucket]_vars

\* Table::on_msg_received has just split the pivot bucket [0, 3]; [0, 1] is last
C3_Witness ==
    /\ ret.op = "on_msg_received"
    /\ Len(rtable.buckets) = 3
    /\ rtable.buckets[3].lo = 0
    /\ rtable.buckets[3].hi = 1
    /\ rtable.buckets[3].nodes # <<>>
    /\ sent = 1

\* Node::find_neighbors(id, now)
FindNeighbors(id) ==
    /\ fault = "none"
    /\ ret' = [op |-> "find_neighbors", id |-> id,
               neighbors |-> routing_find_neighbors(routing_table, id, now)]
    /\ UNCHANGED <<nodeVars, coreVars, now, sent, fault>>

\* ------------------------------------------- scenario: the lib.rs routing table
\* A node with pivot 0 built from a list of known contacts: eight in the upper
\* half of the id space, the same with two more near the pivot, eight addresses
\* that all claim id 1, or eight that all claim the pivot id; the ten also after
\* every record has let three queries time out.  A known contact and three new
\* ones send queries, and one of them answers or refuses a query of the host.
HighContacts ==
    <<AddrId(1, 4), AddrId(2, 4), AddrId(1, 5), AddrId(2, 5), AddrId(1, 6),
      AddrId(2, 6), AddrId(1, 7), AddrId(2, 7), AddrId(1, 1), AddrId(3, 1)>>
SameIdContacts(id) == [a \in 1..MAX_BUCKET_SIZE |-> AddrId(a, id)]
KnownLists ==
    {SubSeq(HighContacts, 1, MAX_BUCKET_SIZE), HighContacts,
     SameIdContacts(1), SameIdContacts(0)}

Senders == {AddrId(1, 4), AddrId(9, 1), AddrId(9, 0), AddrId(9, 6)}
RoutingMsgs ==
    {<<[y |-> "q", id |-> Some(c.id), t |-> None], c.addr>> : c \in Senders}
    \cup {<<[y |-> "r", id |-> Some(1), t |-> Some(0)], 9>>}
    \cup {<<[y |-> "e", id |-> None, t |-> Some(0)], 9>>}

InitRouting ==
    \/ \E addr_ids \in KnownLists : NodeInit(0, TRUE, addr_ids)
    \/ NodeInitAged(0, TRUE, HighContacts, KARMA_BAD - 1)

NextRouting ==
    \/ NextTxId(0)
    \/ InsertTx(9, Some(1), DEFAULT_QUERY_TIMEOUT, RoutingSent)
    \/ \E msg \in RoutingMsgs : OnRecv(msg[1], msg[2])
    \/ PopTimedOutTx
    \/ Tick(TIMEOUT_INTERVAL, RoutingHorizon)

SpecRouting == InitRouting /\ [][NextRouting]_vars

\* ------------------------------------------------- scenario: both bucket kinds
\* Either the node of lib.rs or the table of routing.rs, each in runs of its own.
NodeLive == config.local_id # NoId
TableLive == rtable.pivot # NoId

InitBuckets == InitRouting \/ InitTable

NextBuckets ==
    \/ NodeLive /\ NextRouting
    \/ TableLive /\ NextTable

SpecBuckets == InitBuckets /\ [][NextBuckets]_vars

\* C2: every bucket of the lib.rs table holds at most MAX_BUCKET_SIZE records
\* and the assert_eq! of routing::on_recv has not failed; every bucket of the
\* routing.rs table holds at most max_nodes_per_bucket primary records.
C2_BucketsBounded ==
    /\ NodeLive => fault # "panic"
    /\ \A i \in 1..Len(routing_table.buckets) :
          Len(routing_table.buckets[i].nodes) <= MAX_BUCKET_SIZE
    /\ \A i \in 1..Len(rtable.buckets) :
          Len(rtable.buckets[i].nodes) <= rtable.max_nodes_per_bucket

\* a query from the new contact (9, 6) has met its bucket without the pivot
\* holding eight records none of which is Bad: the assertion passed and the
\* contact was dropped
C2_Witness ==
    /\ ret.op = "on_recv"
    /\ ret.addr = 9
    /\ ret.value.id = Some(6)
    /\ ret.event.res = "Ok"
    /\ LET b == routing_table.buckets[cb_Table_find_mut(routing_table, 6)]
       IN  /\ ~range_contains(b, routing_table.pivot)
           /\ Len(b.nodes) = MAX_BUCKET_SIZE
           /\ find_addr_id(b.nodes, AddrId(9, 6)) = 0

\* ------------------------------------------------ scenario: neighbour search
\* The node of the routing scenario, or one that knows nobody; contacts send
\* queries and the host asks for the neighbours of every id.
InitNeighbors == \E addr_ids \in KnownLists \cup {<<>>} : NodeInit(0, TRUE, addr_ids)

NextNeighbors ==
    \/ \E c \in Senders : OnRecv([y |-> "q", id |-> Some(c.id), t |-> None], c.addr)
    \/ \E id \in Ids : FindNeighbors(id)

SpecNeighbors == InitNeighbors /\ [][NextNeighbors]_vars

\* the contacts of a sequence that lie at distance d from the target
at_distance(addr_ids, target, d) ==
    SelectSeq(addr_ids, LAMBDA a : Id_distance(a.id, target) = d)

held_contacts == [i \in 1..Len(table_nodes(routing_table)) |->
                     table_nodes(routing_table)[i].addr_id]

\* C4: what find_neighbors yields is every held record, in ascending XOR
\* distance to the target, records at equal distance in table order; so its
\* first 8 entries are 8 held records nearest to the target in that order.
C4_NeighborsSorted ==
    ret.op = "find_neighbors" =>
        LET found == ret.neighbors
            first == take(found, MAX_BUCKET_SIZE)
        IN  /\ \A d \in Ids :
                  at_distance(found, ret.id, d) = at_distance(held_contacts, ret.id, d)
            /\ \A i, j \in 1..Len(found) :
                  i < j => Id_distance(found[i].id, ret.id) <= Id_distance(found[j].id, ret.id)
            /\ Len(first) = IF Len(held_contacts) < MAX_BUCKET_SIZE
                            THEN Len(held_contacts) ELSE MAX_BUCKET_SIZE
            /\ \A i \in 1..Len(first), j \in 1..Len(found) :
                  j > Len(first) =>
                      Id_distance(first[i].id, ret.id) <= Id_distance(found[j].id, ret.id)

\* more than eight records are held, two of the first eight found are at the
\* same distance, and the order found is not the table's
C4_Witness ==
    /\ ret.op = "find_neighbors"
    /\ Len(ret.neighbors) > MAX_BUCKET_SIZE
    /\ ret.neighbors # held_contacts
    /\ \E i \in 1..(MAX_BUCKET_SIZE - 1) :
          /\ ret.neighbors[i].id = ret.neighbors[i + 1].id
          /\ ret.neighbors[i] # ret.neighbors[i + 1]

\* ------------------------------------------- scenario: messages of any kind
\* A node, strict or not, that knows the contact (addr 1, id 1) and has one
\* find-node operation for its own id under way.  It queries addr 1, expecting
\* id 1 or no particular id, with a timeout of 0.  Bytes that do not decode,
\* messages without y, queries, responses and errors arrive from either
\* address, with id 1 or none; a further contact (addr 2, id 2) sends a few
\* messages of an unknown type.
RecvMsgs ==
    [y : {"r", "e", "q", "absent"}, id : Opt({1}), t : Opt({0})] \cup {Garbage}
UnknownMsgs == [y : {"x"}, id : {Some(2)}, t : Opt({0})]

\* the contact has sent fewer than RecvUnknowns messages of unknown type
may_send_unknown(table, addr_id) ==
    IsSome(record_of(table, addr_id)) =>
        Unwrap(record_of(table, addr_id)).karma > 0 - RecvUnknowns

InitRecv == \E strict \in BOOLEAN : NodeInit(0, strict, <<AddrId(1, 1)>>)

NextRecv ==
    \/ NextTxId(0)
    \/ \E id \in Opt({1}) : InsertTx(1, id, 0, RecvSent)
    \/ \E value \in RecvMsgs, addr \in Addrs : OnRecv(value, addr)
    \/ \E value \in UnknownMsgs :
          may_send_unknown(routing_table, AddrId(2, 2)) /\ OnRecv(value, 2)
    \/ PopTimedOutTx

SpecRecv == InitRecv /\ [][NextRecv]_vars

\* ------------------------------------------- claims on messages in error
\* an on_recv step that returned an error
RecvFailed == ret'.op = "on_recv" /\ ret'.event.res = "Err"

\* C12: whenever on_recv returns an error (bytes that do not decode, no
\* message type, invalid input) the routing table and the list of find-node
\* operations are exactly as they were before the call.
C12_ErrorsLeaveStateAlone ==
    [][RecvFailed =>
         /\ ret'.event.kind \in {"BtBencode", "UnknownMsgTy", "InvalidInput"}
         /\ routing_table' = routing_table
         /\ find_node_ops' = find_node_ops]_vars

\* a strict node has just rejected a response without the expected id: the
\* transaction is gone, the find-node operation that waits for that contact
\* and the record of the contact are still there
C12_Witness ==
    /\ config.strict
    /\ ret.op = "on_recv"
    /\ ret.value.y = "r"
    /\ ret.event.kind = "InvalidInput"
    /\ sent = 1
    /\ tx_manager = <<>>
    /\ Len(find_node_ops) = 1
    /\ find_node_ops[1].candidates[1].status = "Pending"
    /\ IsSome(record_of(routing_table, AddrId(1, 1)))

\* --------------------------------- claims on messages of no known type
\* an on_recv step for a message that decodes and whose y is absent or is
\* none of q, r, e
RecvUntyped == ret'.op = "on_recv" /\ ret'.value.y \notin {"q", "r", "e", Garbage.y}

bucket_members(table) ==
    [i \in 1..Len(table.buckets) |->
        [j \in 1..Len(table.buckets[i].nodes) |-> table.buckets[i].nodes[j].addr_id]]

RecvReply == ret'.op = "on_recv" /\ ret'.value.y \in {"r", "e"}

\* C11: a response or error that names a held transaction but arrives from an
\* address other than the transaction's is rejected, the transaction stays
\* held and the routing table is left as it was.
C11_ReplyAddressMustMatch ==
    [][RecvReply =>
         LET i == matched(ret'.value)
         IN  (i # 0 /\ tx_manager[i].addr # ret'.addr) =>
                /\ ret'.event.res = "Err"
                /\ tx_manager' = tx_manager
                /\ routing_table' = routing_table]_vars

\* ------------------------------------------ claims on the merge of lib.rs
\* routing::on_recv as on_recv_with_now calls it at the present time
merged(table, addr_id, kind, tx_id) ==
    routing_on_recv(table, addr_id, kind, tx_id, now + BUCKET_REFRESH_INTERVAL, now)

\* the table with the record of a held contact replaced
with_record(table, addr_id, node) ==
    LET i == cb_Table_find_mut(table, addr_id.id)
        j == find_addr_id(table.buckets[i].nodes, addr_id)
    IN  [table EXCEPT !.buckets[i].nodes[j] = node]

\* the range of every bucket
bucket_ranges(table) ==
    [i \in 1..Len(table.buckets) |-> <<table.buckets[i].lo, table.buckets[i].hi>>]

\* C15: routing::on_recv applied twice for the same AddrId with the same now
\* yields the buckets and the bucket members of a single application; the
\* second application only applies on_msg_received to the record, if the
\* first left one.
C15_MergeIdempotent ==
    fault = "none" =>
        \A addr_id \in Senders, kind \in Kinds, tx_id \in Opt({0}) :
            LET once == merged(routing_table, addr_id, kind, tx_id)
                twice == merged(once.table, addr_id, kind, tx_id)
                held == record_of(once.table, addr_id)
            IN  once.fault = "none" =>
                   /\ twice.fault = "none"
                   /\ bucket_ranges(twice.table) = bucket_ranges(once.table)
                   /\ bucket_members(twice.table) = bucket_members(once.table)
                   /\ twice.table =
                         IF IsSome(held)
                         THEN with_record(once.table, addr_id,
                                  routing_Node_on_msg_received(Unwrap(held), kind, tx_id, now))
                         ELSE once.table

\* a query from address 9 has just been merged into a table of several
\* buckets, which holds the record of its sender; a response of that contact
\* merged now would change the record and nothing else
C15_Witness ==
    /\ ret.op = "on_recv"
    /\ ret.value.y = "q"
    /\ ret.addr = 9
    /\ fault = "none"
    /\ Len(routing_table.buckets) > 1
    /\ IsSome(record_of(routing_table, AddrId(9, Unwrap(ret.value.id))))
    /\ merged(routing_table, AddrId(9, Unwrap(ret.value.id)), "Response", Some(0)).table
          # routing_table

\* ------------------------------------- claims on the replacement records
\* The table of the routing.rs scenario once built: contacts send messages
\* and let queries time out, and time passes.
NextReplacements ==
    \/ \E msg \in TableMsgs, stable \in BOOLEAN :
          TableOnMsgReceived(msg[1], msg[2], stable, TableOps)
    \/ \E addr_id \in TableContacts, stable \in BOOLEAN :
          TableOnRespTimeout(addr_id, stable, TableOps)
    \/ Tick(EXPECT_CHANGE_INTERVAL, TableHorizon)

SpecReplacements == InitTable /\ [][NextReplacements]_vars

\* C16: in routing.rs, after any calls of Table::on_msg_received and
\* Table::on_resp_timeout and any passage of time, no bucket has more
\* replacement records than it has primary records that are Questionable now.
C16_ReplacementsBounded ==
    \A i \in 1..Len(rtable.buckets) :
        Len(rtable.buckets[i].replacement_nodes)
            <= Bucket_max_replacement_nodes(rtable.buckets[i], now)

\* ------------------------------------------------- scenario: the deadlines
\* A node that knows the contact (addr 1, id 1) or no contact yet.  The host
\* sends that contact a query, which is answered or times out, the contact
\* sends queries of its own, the host asks for the next deadline and reports
\* timeouts, and time passes beyond the first deadline of the pivot lookup.
DeadlineMsgs == [y : {"r", "q"}, id : {Some(1)}, t : {Some(0)}]

\* Node::timeout
Timeout ==
    /\ fault = "none"
    /\ ret' = [op |-> "timeout", deadline |-> Node_timeout(tx_manager, routing_table)]
    /\ UNCHANGED <<nodeVars, now, sent, fault, coreVars>>

\* Node::on_timeout
OnTimeout ==
    /\ fault = "none"
    /\ \E r \in {Node_on_timeout_with_now(routing_table, find_node_ops,
                                           find_pivot_id_deadline, now)} :
           /\ find_node_ops' = r.ops
           /\ find_pivot_id_deadline' = r.find_pivot_id_deadline
    /\ ret' = [op |-> "on_timeout"]
    /\ UNCHANGED <<config, routing_table, tx_manager, next_id, now, sent, fault, lookup_log, coreVars>>

InitDeadlines == \E addr_ids \in {<<>>, <<AddrId(1, 1)>>} : NodeInit(0, TRUE, addr_ids)

NextDeadlines ==
    \/ NextTxId(0)
    \/ \E timeout \in {0, 1} : InsertTx(1, Some(1), timeout, DeadlineSent)
    \/ \E value \in DeadlineMsgs : OnRecv(value, 1)
    \/ PopTimedOutTx
    \/ Timeout
    \/ OnTimeout
    \/ Tick(5, DeadlineHorizon)

SpecDeadlines == InitDeadlines /\ [][NextDeadlines]_vars

\* the deadlines the node has to meet
node_deadlines ==
    Range(Transactions_timeout(tx_manager)) \cup Range(routing_Table_timeout(routing_table))
        \cup {find_pivot_id_deadline}

\* C17: Node::timeout returns the earliest of the transaction manager's
\* earliest deadline, the routing table's timeout and find_pivot_id_deadline,
\* so it is never later than find_pivot_id_deadline.
C17_TimeoutIsEarliest ==
    ret.op = "timeout" =>
        /\ ret.deadline = Some(Min(node_deadlines))
        /\ Unwrap(ret.deadline) <= find_pivot_id_deadline

\* a step of Node::on_timeout starts the pivot lookup if it is due
pivot_lookup_started ==
    IF find_pivot_id_deadline <= now
    THEN /\ Len(find_node_ops') = Len(find_node_ops) + 1
         /\ SubSeq(find_node_ops', 1, Len(find_node_ops)) = find_node_ops
         /\ find_node_ops'[Len(find_node_ops')].target = config.local_id
         /\ find_pivot_id_deadline' = now + FIND_LOCAL_ID_INTERVAL
    ELSE UNCHANGED <<find_node_ops, find_pivot_id_deadline>>

\* C18 as stated: after Node::on_timeout(now) no held transaction has a
\* deadline at or before now, and if find_pivot_id_deadline was at or before
\* now a find-node operation for the pivot has been added and
\* find_pivot_id_deadline is now + 15 min.
C18_OnTimeoutPopsAll ==
    [][ret'.op = "on_timeout" =>
          /\ timed_out(tx_manager', now') = {}
          /\ find_pivot_id_deadline <= now => pivot_lookup_started]_vars

\* C18, amended: Node::on_timeout(now) removes no transaction and leaves the
\* routing table alone (timed-out transactions are taken one per call by
\* Node::pop_timed_out_tx); if find_pivot_id_deadline was at or before now it
\* adds a find-node operation for the pivot and sets find_pivot_id_deadline to
\* now + 15 min, otherwise it changes nothing.
C18_OnTimeoutPivotOnly ==
    [][ret'.op = "on_timeout" =>
          /\ UNCHANGED <<tx_manager, routing_table>>
          /\ pivot_lookup_started]_vars

\* on_timeout has just started the pivot lookup while a transaction whose
\* deadline has passed is still held
C18_Witness ==
    /\ ret.op = "on_timeout"
    /\ now >= FIND_LOCAL_ID_INTERVAL
    /\ find_pivot_id_deadline = now + FIND_LOCAL_ID_INTERVAL
    /\ Len(find_node_ops) > 1
    /\ find_node_ops[Len(find_node_ops)].target = config.local_id
    /\ timed_out(tx_manager, now) # {}

\* --------------------------------------------- claims on the events read
\* C19: the ReadEvent of a response or an error that matched a transaction
\* carries the local id of that transaction, which is the t of the message;
\* ReadEvent::tx_id is None only for the query of a remote node.
C19_EventCarriesTxId ==
    (ret.op = "on_recv" /\ ret.event.res = "Ok") =>
        IF ret.event.kind = "Query"
        THEN ret.event.tx_id = None
        ELSE ret.event.tx_id = ret.value.t

\* ---------------------------------------------------- scenario: the karma
\* A node that knows the contact (addr 1, id 1), whose record has reached
\* the lowest karma, the highest, or none.  The host sends it queries, which
\* are answered by a response or an error or time out, and the contact sends
\* queries and messages of an unknown type.
KarmaLimits == {I8_MIN, 0, KARMA_MAX}
KarmaMsgs == [y : {"r", "e", "q", "x"}, id : {Some(1)}, t : {Some(0)}]

InitKarma == \E karma \in KarmaLimits : NodeInitAged(0, TRUE, <<AddrId(1, 1)>>, karma)

NextKarma ==
    \/ NextTxId(0)
    \/ InsertTx(1, Some(1), 0, KarmaSent)
    \/ \E value \in KarmaMsgs : OnRecv(value, 1)
    \/ PopTimedOutTx

SpecKarma == InitKarma /\ [][NextKarma]_vars

\* the karma of the record of the contact
karma_of(table) == Unwrap(record_of(table, AddrId(1, 1))).karma

\* what the step just taken told the record of the contact
told ==
    CASE ret'.op = "on_recv" /\ ret'.event.res = "Ok" /\ ret'.event.kind = "Resp" -> "Response"
      [] ret'.op = "on_recv" /\ ret'.event.res = "Ok" /\ ret'.event.kind = "Error" -> "Error"
      [] ret'.op = "on_recv" /\ ret'.event.res = "Ok" /\ ret'.value.y = "q" -> "Query"
      [] ret'.op = "on_recv" /\ ret'.event.res = "Ok" /\ ret'.value.y = "x" -> "Unknown"
      [] ret'.op = "pop_timed_out_tx" /\ ret'.tx # None -> "Timeout"
      [] OTHER -> "Nothing"

\* C20: the karma of a record stays within [-128, 3]: a Response sets it to
\* min(karma + 1, 3); an Error, a message of unknown type and a timeout
\* subtract 1, saturating at -128; a Query leaves it unchanged.
C20_KarmaWithinLimits ==
    [][/\ karma_of(routing_table') \in I8_MIN..KARMA_MAX
       /\ karma_of(routing_table') =
            CASE told = "Response" -> Min({karma_of(routing_table) + 1, KARMA_MAX})
              [] told \in {"Error", "Unknown", "Timeout"} ->
                     Max({karma_of(routing_table) - 1, I8_MIN})
              [] OTHER -> karma_of(routing_table)]_vars

\* a message of unknown type has reached a record that only ever lost karma
\* and is at -128
C20_Witness ==
    /\ ret.op = "on_recv"
    /\ ret.event.res = "Ok"
    /\ ret.value.y = "x"
    /\ sent = 0
    /\ next_id = None
    /\ karma_of(routing_table) = I8_MIN

\* ------------------------------------------------- claims on the clock
\* two readings Instant::now() can give during one call made at time now
wall_clocks == {now, now + 1}

\* C21: the core reads no clock of its own: the deadlines a call stores are a
\* function of its arguments, so the same call with the same arguments
\* leaves the same state whatever the wall clock reads.  Stated for the next
\* call of Table::on_msg_received, for the transaction made of each message
\* waiting in the buffer, and for Node::new.
C21_NoClockOfItsOwn ==
    \A c1 \in wall_clocks, c2 \in wall_clocks :
        /\ \A msg \in TableMsgs :
              Table_on_msg_received(rtable, msg[1], msg[2], manager, buffer, now, c1, TRUE).table
                  = Table_on_msg_received(rtable, msg[1], msg[2], manager, buffer, now, c2, TRUE).table
        /\ \A i \in 1..Len(buffer.outbound) :
              OutboundMsg_into_transaction(buffer.outbound[i], c1)
                  = OutboundMsg_into_transaction(buffer.outbound[i], c2)
        /\ Node_new_table(Ok(cb_Table_new(0, c1)), <<AddrId(1, 1)>>, c1).table
              = Node_new_table(Ok(cb_Table_new(0, c2)), <<AddrId(1, 1)>>, c2).table

\* ------------------------------------------ scenario: a lookup on the node
\* A node that knows no contact or three far ones, with the find-node
\* operation toward its own id that Node::new starts.  The host promotes
\* candidates of the operation, sending each a find_node query; a query is
\* answered by a response that names the two next closer contacts or by an
\* error, or it times out.
LookupSeeds == <<AddrId(7, 7), AddrId(6, 6), AddrId(5, 5)>>

\* the contacts a contact names in its find_node response
closer_nodes(id) == [i \in 1..Min({2, id - 1}) |-> AddrId(id - i, id - i)]

\* the host takes the next candidate step 3 allows of an operation, inserts
\* the transaction of its query under the id next_tx_id returned and tells the
\* operation
Promote(timeout) ==
    /\ fault = "none"
    /\ IsSome(next_id)
    /\ \E i \in 1..Len(find_node_ops) :
          /\ can_promote(find_node_ops[i])
          /\ \E c \in {find_node_ops[i].candidates[Min(promotable(find_node_ops[i]))]} :
                tx_manager' = Transactions_insert(tx_manager,
                                 Transaction(c.addr, c.id, Unwrap(next_id), now + timeout))
          /\ find_node_ops' = [find_node_ops EXCEPT
                                  ![i] = FindNodeOp_promote(@, Unwrap(next_id))]
    /\ next_id' = None
    /\ ret' = [op |-> "promote"]
    /\ UNCHANGED <<config, routing_table, find_pivot_id_deadline, now, sent, fault, lookup_log, coreVars>>

\* the contact a query was sent to answers it
Answer(y) ==
    \E i \in 1..Len(tx_manager) :
        \E tx \in {tx_manager[i]} :
            OnRecv(IF y = "r"
                   THEN [y |-> "r", id |-> tx.id,
                         nodes |-> closer_nodes(Unwrap(tx.id)), t |-> Some(tx.tx_id)]
                   ELSE [y |-> "e", id |-> tx.id, t |-> Some(tx.tx_id)],
                   tx.addr)

InitLookup == \E addr_ids \in {<<>>, LookupSeeds} : NodeInit(0, TRUE, addr_ids)

NextLookup ==
    \/ NextTxId(0)
    \/ Promote(0)
    \/ \E y \in {"r", "e"} : Answer(y)
    \/ PopTimedOutTx

SpecLookup == InitLookup /\ [][NextLookup]_vars

\* the transaction the step just taken completed, if it completed one
completed ==
    CASE ret'.op = "on_recv" /\ ret'.event.res = "Ok" /\ ret'.event.kind \in {"Resp", "Error"} ->
             ret'.value.t
      [] ret'.op = "pop_timed_out_tx" /\ ret'.tx # None -> Some(Unwrap(ret'.tx).tx_id)
      [] OTHER -> None

\* C23: after every on_recv that accepts a response or an error and after
\* every pop_timed_out_tx that returns a transaction, no operation of the
\* node's find-node list is terminal, and every operation of the list has
\* observed the completion: none still has a candidate in flight under the id
\* of that transaction.
C23_TerminalOpsPurged ==
    [][completed # None =>
          \A i \in 1..Len(find_node_ops') :
              /\ ~FindNodeOp_is_done(find_node_ops'[i])
              /\ \A j \in in_flight(find_node_ops'[i]) :
                    find_node_ops'[i].candidates[j].tx_id # completed]_vars

\* the last query of an operation has just been answered: the operation is
\* gone from the list and no other is left
C23_Witness ==
    /\ ret.op = "on_recv"
    /\ ret.event.res = "Ok"
    /\ ret.event.kind = "Resp"
    /\ IsSome(record_of(routing_table, AddrId(1, 1)))
    /\ find_node_ops = <<>>

\* The same scenario with its scheduling: the host goes on allocating ids
\* and promoting candidates while it can, and every query in flight comes to
\* an end, by an answer or by its timeout.
SpecLookupFair ==
    /\ SpecLookup
    /\ WF_vars(NextTxId(0))
    /\ WF_vars(Promote(0))
    /\ WF_vars((\E y \in {"r", "e"} : Answer(y)) \/ PopTimedOutTx)

\* C24: provided every query in flight of a find-node operation comes to an
\* end, the operation becomes terminal and is then removed from the node: the
\* node's find-node list is eventually empty.
C24_LookupEnds == <>(find_node_ops = <<>>)

\* ---------------------------------- scenario: a find-node operation alone
\* An operation toward id 0 seeded with four candidates in no order, or with
\* one.  Its candidates are promoted while step 3 allows, and each query in
\* flight ends, in any order, by a response that names the two next closer
\* contacts, by an error or by a timeout.  No node is involved: the operation
\* is not dropped when it is terminal.
OpSeeds == {<<AddrId(5, 5), AddrId(7, 7), AddrId(4, 4), AddrId(6, 6)>>, <<AddrId(7, 7)>>}

as_candidates(addr_ids) ==
    [i \in 1..Len(addr_ids) |-> [addr |-> addr_ids[i].addr, id |-> Some(addr_ids[i].id)]]

InitOp ==
    /\ config = [local_id |-> NoId, strict |-> FALSE]
    /\ routing_table = [pivot |-> NoId, buckets |-> <<>>]
    /\ find_pivot_id_deadline = 0
    /\ tx_manager = <<>>
    /\ next_id = None
    /\ \E seeds \in OpSeeds :
          /\ find_node_ops = <<FindNodeOp_new(0, as_candidates(seeds))>>
          /\ lookup_log = [observed |-> Range(seeds), promoted |-> <<>>]
    /\ now = 0
    /\ sent = 0
    /\ ret = [op |-> "new"]
    /\ fault = "none"
    /\ CoreIdle

\* step 3, one promotion, under the next transaction id
OpPromote ==
    /\ sent < OpQueries
    /\ can_promote(find_node_ops[1])
    /\ \E c \in {find_node_ops[1].candidates[Min(promotable(find_node_ops[1]))]} :
          lookup_log' = [lookup_log EXCEPT
                            !.promoted = Append(@, AddrId(c.addr, Unwrap(c.id)))]
    /\ find_node_ops' = <<FindNodeOp_promote(find_node_ops[1], sent % (TX_ID_MAX + 1))>>
    /\ sent' = sent + 1
    /\ ret' = [op |-> "promote"]
    /\ UNCHANGED <<config, routing_table, find_pivot_id_deadline, tx_manager, next_id,
                   now, fault, coreVars>>

\* FindNodeOp::handle for the transaction of the candidate at position j
OpHandle(j, response) ==
    /\ j \in in_flight(find_node_ops[1])
    /\ \E c \in {find_node_ops[1].candidates[j]} :
        \E nodes \in {IF response = "Resp" THEN closer_nodes(Unwrap(c.id)) ELSE <<>>} :
          /\ find_node_ops' =
                <<FindNodeOp_handle(find_node_ops[1],
                                    Transaction(c.addr, c.id, Unwrap(c.tx_id), now),
                                    response, nodes)>>
          /\ lookup_log' = [lookup_log EXCEPT !.observed = @ \cup Range(nodes)]
          /\ ret' = [op |-> "handle", response |-> response, tx_id |-> c.tx_id]
    /\ UNCHANGED <<config, routing_table, find_pivot_id_deadline, tx_manager, next_id,
                   now, sent, fault, coreVars>>

NextOp ==
    \/ OpPromote
    \/ \E j \in 1..(2 * KClosest), response \in {"Resp", "Error", "Timeout"} :
          OpHandle(j, response)

SpecOp == InitOp /\ [][NextOp]_vars

\* C22: at every point in the life of a find-node operation, under any
\* interleaving of responses, errors and timeouts, at most Alpha of its
\* candidates are InFlight, and no candidate is promoted to InFlight twice.
C22_AtMostAlphaInFlight ==
    /\ \A i \in 1..Len(find_node_ops) : Cardinality(in_flight(find_node_ops[i])) <= Alpha
    /\ \A m \in 1..Len(lookup_log.promoted), n \in 1..Len(lookup_log.promoted) :
          lookup_log.promoted[m] = lookup_log.promoted[n] => m = n

\* Alpha queries are in flight while a further candidate waits among the
\* nearest, after earlier queries have ended
C22_Witness ==
    /\ Cardinality(in_flight(find_node_ops[1])) = Alpha
    /\ promotable(find_node_ops[1]) # {}
    /\ Len(lookup_log.promoted) > Alpha

\* the contacts observed that have fewer than KClosest observed contacts
\* nearer to the target
nearest_observed(target) ==
    {c \in lookup_log.observed :
        Cardinality({d \in lookup_log.observed :
                        Id_distance(d.id, target) < Id_distance(c.id, target)}) < KClosest}

\* the KClosest nearest candidates the operation records
recorded(op) ==
    {AddrId(op.candidates[i].addr, Unwrap(op.candidates[i].id)) :
        i \in 1..Len(take(op.candidates, KClosest))}

\* C25: a find-node operation seeded with candidates and fed responses that
\* name progressively closer contacts is terminal with no query in flight
\* only when the nearest candidates it records are exactly the KClosest
\* nearest to the target of all the contacts it ever observed, seeds and
\* contacts learned from responses.
C25_RecordsNearestObserved ==
    FindNodeOp_is_done(find_node_ops[1]) =>
        /\ in_flight(find_node_ops[1]) = {}
        /\ recorded(find_node_ops[1]) = nearest_observed(find_node_ops[1].target)

\* the operation seeded with four candidates has ended after responses only,
\* having observed more contacts than it keeps
C25_Witness ==
    /\ FindNodeOp_is_done(find_node_ops[1])
    /\ Cardinality(lookup_log.observed) > 2 * KClosest
    /\ \A i \in 1..Len(find_node_ops[1].candidates) :
          find_node_ops[1].candidates[i].status \in {"Responded", "Pending"}
    /\ recorded(find_node_ops[1]) = {AddrId(1, 1), AddrId(2, 2), AddrId(3, 3)}

\* --------------------------------------------- claims on the split loops
\* C26: the split loops of routing::on_recv and Node::new end for every
\* contact, also one whose id is the pivot and contacts that share an id under
\* several addresses, and no split leaves an empty range or two ranges that
\* overlap.
C26_SplitLoopsEnd ==
    /\ fault # "hang"
    /\ \A i \in 1..Len(routing_table.buckets) :
          /\ routing_table.buckets[i].lo <= routing_table.buckets[i].hi
          /\ \A j \in 1..Len(routing_table.buckets) :
                i # j => \/ routing_table.buckets[i].hi < routing_table.buckets[j].lo
                         \/ routing_table.buckets[j].hi < routing_table.buckets[i].lo

\* ------------------------------------------- claims on the routing.rs bucket
\* the Questionable records of a bucket that have a ping outstanding
pinged_questionable(b) ==
    {i \in 1..Len(b.nodes) :
        /\ RemoteNode_state_with_now(b.nodes[i], now) = "Questionable"
        /\ IsSome(b.nodes[i].last_pinged)}

table_members(t) ==
    [i \in 1..Len(t.buckets) |->
        {t.buckets[i].nodes[j].addr_id : j \in 1..Len(t.buckets[i].nodes)}]

\* the routing.rs table holds a primary record of this contact
table_holds(t, addr_id) ==
    \E i \in 1..Len(t.buckets) : find_node_pos(t.buckets[i].nodes, addr_id) # 0

\* C28: a message from a contact whose record its bucket already holds leaves
\* the number of buckets and the members of every bucket as they were, in
\* Table::on_msg_received of routing.rs and in routing::on_recv of lib.rs.
C28_KnownContactOnlyUpdated ==
    [][/\ (/\ ret'.op = "on_msg_received"
           /\ table_holds(rtable, ret'.addr_id))
          => table_members(rtable') = table_members(rtable)
       /\ (/\ ret'.op = "on_recv"
           /\ IsSome(ret'.value.id)
           /\ IsSome(record_of(routing_table, AddrId(ret'.addr, Unwrap(ret'.value.id)))))
          => bucket_members(routing_table') = bucket_members(routing_table)]_vars

\* the bucket that Table::try_insert and Table::on_msg_received hand the
\* contact to: the bucket of its id, or the half of it after a split
target_bucket(t, addr_id) ==
    LET node_id == Unwrap(addr_id.id)
        i == Table_find_bucket(t, node_id)
        halves == Bucket_split(t.buckets[Len(t.buckets)], now)
    IN  IF must_split(t, i)
        THEN IF in_range(halves[1], node_id) THEN halves[1] ELSE halves[2]
        ELSE t.buckets[i]

\* the contacts of the primary records of the bucket that are in this state
in_state(b, state) ==
    {b.nodes[j].addr_id : j \in {k \in 1..Len(b.nodes) :
                                    RemoteNode_state_with_now(b.nodes[k], now) = state}}

\* the contacts of all primary records of the table
all_members(t) == UNION {table_members(t)[i] : i \in 1..Len(t.buckets)}

\* C29: in routing.rs, when Table::try_insert or Table::on_msg_received hands
\* a contact that is not held to a full bucket with at least one Bad record,
\* the record the contact overwrites is Bad at now: every Good and every
\* Questionable record of that bucket is still held afterwards.
C29_BadSlotReused ==
    [][(/\ ret'.op \in {"try_insert", "on_msg_received"}
        /\ IsSome(ret'.addr_id.id)
        /\ Unwrap(ret'.addr_id.id) # rtable.pivot
        /\ ret'.op = "on_msg_received" => ret'.kind # "Unknown"
        /\ LET b == target_bucket(rtable, ret'.addr_id)
           IN  /\ find_node_pos(b.nodes, ret'.addr_id) = 0
               /\ Len(b.nodes) >= rtable.max_nodes_per_bucket
               /\ in_state(b, "Bad") # {})
       => LET b == target_bucket(rtable, ret'.addr_id)
          IN  /\ ret'.addr_id \in all_members(rtable')
              /\ in_state(b, "Good") \cup in_state(b, "Questionable")
                    \subseteq all_members(rtable')]_vars

\* how often the record occurs in the sequence
occurrences(records, n) == Cardinality({k \in 1..Len(records) : records[k] = n})

\* every record of the sequence has an id, which the range of the bucket contains
all_in_range(b, records) ==
    \A k \in 1..Len(records) :
        /\ IsSome(records[k].addr_id.id)
        /\ in_range(b, Unwrap(records[k].addr_id.id))

\* the two halves hold the records of the sequence, each as often as it was
\* there, and the lower half those and only those of its range
distributed(records, lower_records, upper_records, lower_bucket, upper_bucket) ==
    /\ Len(lower_records) + Len(upper_records) = Len(records)
    /\ \A k \in 1..Len(records) :
          occurrences(lower_records, records[k]) + occurrences(upper_records, records[k])
              = occurrences(records, records[k])
    /\ all_in_range(lower_bucket, lower_records)
    /\ all_in_range(upper_bucket, upper_records)

\* C30: every primary and every replacement record of a bucket of routing.rs
\* has an id within the range of that bucket, and Bucket::split applied to the
\* bucket puts each of its records, once, into the half whose range contains
\* the id of the record.
C30_RecordsWithinRange ==
    \A i \in 1..Len(rtable.buckets) :
        LET b == rtable.buckets[i]
            halves == Bucket_split(b, now)
        IN  /\ all_in_range(b, b.nodes)
            /\ all_in_range(b, b.replacement_nodes)
            /\ b.lo < b.hi =>
                  /\ distributed(b.nodes, halves[1].nodes, halves[2].nodes,
                                 halves[1], halves[2])
                  /\ distributed(b.replacement_nodes, halves[1].replacement_nodes,
                                 halves[2].replacement_nodes, halves[1], halves[2])

\* a message has split a bucket with a replacement record: the table has three
\* buckets, one of which took the replacement record and no primary record,
\* while another holds the primary records
C30_Witness ==
    /\ ret.op = "on_msg_received"
    /\ Len(rtable.buckets) = 3
    /\ \E i, j \in 1..Len(rtable.buckets) :
          /\ rtable.buckets[i].nodes = <<>>
          /\ rtable.buckets[i].replacement_nodes # <<>>
          /\ Len(rtable.buckets[j].nodes) = MaxNodesPerBucket

\* --------------------------------------------- claims on a received query
\* the contact that sent the message of this on_recv step
sender(r) == AddrId(r.addr, Unwrap(r.value.id))

\* C31: on_recv of a query leaves the transactions and the find-node
\* operations as they were, and for a sender whose record the table holds it
\* changes nothing but next_query_deadline of that record, to now + 15 min.
C31_QueryTouchesOnlyQueryDeadline ==
    [][(ret'.op = "on_recv" /\ ret'.value.y = "q") =>
          /\ tx_manager' = tx_manager
          /\ find_node_ops' = find_node_ops
          /\ ret'.event.res = "Ok"
          /\ ~IsSome(ret'.value.id) => routing_table' = routing_table
          /\ (IsSome(ret'.value.id) /\ IsSome(record_of(routing_table, sender(ret')))) =>
                routing_table' =
                    with_record(routing_table, sender(ret'),
                        [Unwrap(record_of(routing_table, sender(ret')))
                             EXCEPT !.next_query_deadline = now + TIMEOUT_INTERVAL])]_vars

\* fifteen minutes after construction a held contact has sent a query: its
\* record has the new query deadline and the response deadline of old
C31_Witness ==
    /\ ret.op = "on_recv"
    /\ ret.value.y = "q"
    /\ now = TIMEOUT_INTERVAL
    /\ IsSome(ret.value.id)
    /\ IsSome(record_of(routing_table, sender(ret)))
    /\ LET n == Unwrap(record_of(routing_table, sender(ret)))
       IN  /\ n.next_query_deadline = now + TIMEOUT_INTERVAL
           /\ n.next_response_deadline = TIMEOUT_INTERVAL

\* ------------------------------------------------------ scenario: the pings
\* A node that knows two contacts, or ten in two buckets.  Time passes, the
\* host looks for a record to ping, pings it under the id next_tx_id returned
\* and inserts the transaction of the ping; the pinged contact answers,
\* refuses or stays silent, and the contact (1, 1) sends queries and, until
\* its record is Bad, messages of unknown type.
PingContacts == <<AddrId(1, 1), AddrId(2, 2)>>
PingMsgs == [y : {"q", "x"}, id : {Some(1)}, t : {None}]

\* Node::find_node_to_ping(now), and for the record returned Node::on_ping
\* with the id the preceding next_tx_id returned and Node::insert_tx of the
\* transaction of the ping
FindNodeToPing(timeout, budget) ==
    /\ fault = "none"
    /\ \E found \in {routing_Table_find_node_to_ping(routing_table, now)} :
          IF IsSome(found)
          THEN /\ IsSome(next_id)
               /\ sent < budget
               /\ sent' = sent + 1
               /\ \E n \in {routing_table.buckets[Unwrap(found)[1]].nodes[Unwrap(found)[2]]} :
                     /\ routing_table' =
                           [routing_table EXCEPT
                               !.buckets[Unwrap(found)[1]].nodes[Unwrap(found)[2]] =
                                   routing_Node_on_ping(@, Unwrap(next_id))]
                     /\ tx_manager' = Transactions_insert(tx_manager,
                                         Transaction(n.addr_id.addr, Some(n.addr_id.id),
                                                     Unwrap(next_id), now + timeout))
                     /\ ret' = [op |-> "find_node_to_ping", node |-> Some(n.addr_id)]
               /\ next_id' = None
          ELSE /\ ret' = [op |-> "find_node_to_ping", node |-> None]
               /\ UNCHANGED <<routing_table, tx_manager, next_id, sent>>
    /\ UNCHANGED <<config, find_pivot_id_deadline, find_node_ops, now, fault, lookup_log, coreVars>>

InitPing == \E addr_ids \in {PingContacts, HighContacts} : NodeInit(0, TRUE, addr_ids)

NextPing ==
    \/ NextTxId(0)
    \/ FindNodeToPing(0, PingSent)
    \/ \E y \in {"r", "e"} : Answer(y)
    \/ \E value \in PingMsgs :
          /\ value.y = "x" => Unwrap(record_of(routing_table, AddrId(1, 1))).karma >= KARMA_BAD
          /\ OnRecv(value, 1)
    \/ PopTimedOutTx
    \/ Tick(TIMEOUT_INTERVAL, PingHorizon)

SpecPing == InitPing /\ [][NextPing]_vars

\* <<bucket, position>> of the records that are Questionable now and have no
\* ping in flight
pingable ==
    {p \in (1..Len(routing_table.buckets)) \X (1..MAX_BUCKET_SIZE) :
        /\ p[2] <= Len(routing_table.buckets[p[1]].nodes)
        /\ LET n == routing_table.buckets[p[1]].nodes[p[2]]
           IN  /\ routing_Node_state_with_now(n, now) = "Questionable"
               /\ ~IsSome(n.ping_tx_id)}

\* the step completes the transaction with this id: a response or an error
\* that is accepted, or a timeout that is popped
completes(tx_id) ==
    \/ /\ ret'.op = "on_recv"
       /\ ret'.value.y \in {"r", "e"}
       /\ ret'.event.res = "Ok"
       /\ ret'.value.t = Some(tx_id)
    \/ /\ ret'.op = "pop_timed_out_tx"
       /\ IsSome(ret'.tx)
       /\ Unwrap(ret'.tx).tx_id = tx_id

\* C32: find_node_to_ping returns None when no record is Questionable now
\* without a ping in flight, and otherwise the first such record in bucket
\* order; a record on which on_ping(tx) was recorded keeps that ping_tx_id, so
\* is not returned, until a response, an error or a timeout with that
\* transaction id.
C32_PingsFirstQuestionable ==
    [][/\ ret'.op = "find_node_to_ping" =>
             IF pingable = {} THEN ret'.node = None
             ELSE \E p \in pingable :
                     /\ \A q \in pingable : p[1] < q[1] \/ (p[1] = q[1] /\ p[2] <= q[2])
                     /\ ret'.node = Some(routing_table.buckets[p[1]].nodes[p[2]].addr_id)
                     /\ IsSome(record_of(routing_table', Unwrap(ret'.node)))
                     /\ Unwrap(record_of(routing_table', Unwrap(ret'.node))).ping_tx_id
                           = next_id
       /\ \A i \in 1..Len(routing_table.buckets) :
             \A j \in 1..Len(routing_table.buckets[i].nodes) :
                LET n == routing_table.buckets[i].nodes[j]
                    after == record_of(routing_table', n.addr_id)
                IN  (IsSome(n.ping_tx_id) /\ IsSome(after)
                     /\ Unwrap(after).ping_tx_id # n.ping_tx_id)
                       => completes(Unwrap(n.ping_tx_id))]_vars

\* of the ten contacts the first of the bucket [4, 7] is being pinged and the
\* host, looking again, was given the second
C32_Witness ==
    /\ ret.op = "find_node_to_ping"
    /\ ret.node = Some(AddrId(2, 4))
    /\ Len(routing_table.buckets) = 2
    /\ IsSome(Unwrap(record_of(routing_table, AddrId(1, 4))).ping_tx_id)
    /\ Len(tx_manager) = 2
\* ------------------------------------- claims on the end of a transaction
\* the step just taken left the store, the routing table and the find-node
\* operations as they were
nothing_delivered ==
    /\ tx_manager' = tx_manager
    /\ routing_table' = routing_table
    /\ find_node_ops' = find_node_ops

\* C33: a transaction completes at most once.  A response, an error or a
\* timeout is delivered only for a transaction that is held, and delivering it
\* takes that transaction out of the store, so that no transaction with its id
\* is held afterwards and no find-node operation still waits under that id;
\* a response or an error whose transaction id names no held transaction (a
\* duplicate, or a message after the timeout) is rejected with InvalidInput,
\* a pop_timed_out_tx that finds nothing returns None, and both change
\* nothing.
C33_CompletesAtMostOnce ==
    [][/\ completed # None =>
            /\ \E i \in 1..Len(tx_manager) :
                  /\ tx_manager[i].tx_id = Unwrap(completed)
                  /\ tx_manager' = remove_at(tx_manager, i)
            /\ ~Transactions_contains(tx_manager', Unwrap(completed))
            /\ \A i \in 1..Len(find_node_ops') : \A j \in in_flight(find_node_ops'[i]) :
                  find_node_ops'[i].candidates[j].tx_id # completed
       /\ (RecvReply /\ matched(ret'.value) = 0) => (Rejected /\ nothing_delivered)
       /\ (ret'.op = "pop_timed_out_tx" /\ ret'.tx = None) => nothing_delivered]_vars

\* the contact answered the only query sent, which raised its karma, and the
\* same response has just arrived again and was rejected
C33_Witness ==
    /\ ret.op = "on_recv"
    /\ ret.value = [y |-> "r", id |-> Some(1), t |-> Some(0)]
    /\ ret.addr = 1
    /\ ret.event.res = "Err"
    /\ ret.event.kind = "InvalidInput"
    /\ sent = RecvSent
    /\ tx_manager = <<>>
    /\ Unwrap(record_of(routing_table, AddrId(1, 1))).karma = 1
\* C33 as stated: the first response or error that names a held transaction
\* is delivered.
C33_FirstEventDelivered ==
    [][(RecvReply /\ matched(ret'.value) # 0) => completed = ret'.value.t]_vars
\* ------------------------------------------ claims on the records held
\* the ids of the records of the table of lib.rs
held_ids(table) == {table_nodes(table)[i].addr_id.id : i \in 1..Len(table_nodes(table))}

\* C34: no record of the routing table has the id of the local node, whatever
\* the known contacts given at construction and whatever queries, responses
\* and errors were received.
C34_NoRecordOfPivot == config.local_id \notin held_ids(routing_table)
\* no two of these records are records of the same contact
no_two_records(records) ==
    \A i, j \in 1..Len(records) : records[i].addr_id = records[j].addr_id => i = j

\* the primary and replacement records of the table of routing.rs
all_records(t) ==
    SeqConcat([i \in 1..Len(t.buckets) |->
                  t.buckets[i].nodes \o t.buckets[i].replacement_nodes])

\* C35: the routing table never holds two records with the same AddrId, in
\* the primary or the replacement lists, after any sequence of operations.
C35_NoDuplicateRecords ==
    /\ no_two_records(table_nodes(routing_table))
    /\ no_two_records(all_records(rtable))
\* ------------------------------------ routing.rs: the neighbours of an id
\* Bucket::prioritized_addr_ids: the contacts of the primary records that are
\* Questionable or Good, in the order of the bucket
Bucket_prioritized_addr_ids(b, instant) ==
    LET keep == {j \in 1..Len(b.nodes) :
                    RemoteNode_state_with_now(b.nodes[j], instant) \in {"Questionable", "Good"}}
        pick[j \in 0..Len(b.nodes)] ==
            IF j = 0 THEN <<>>
            ELSE IF j \in keep THEN Append(pick[j - 1], b.nodes[j].addr_id)
            ELSE pick[j - 1]
    IN  pick[Len(b.nodes)]

\* Table::find_neighbors: the buckets from the one of the id down to the first,
\* chained with the buckets from the one of the id up to the last
Table_find_neighbors(t, id, instant) ==
    LET idx == Table_find_bucket(t, id)
        len == Len(t.buckets)
        order == [k \in 1..idx |-> idx + 1 - k] \o [k \in 1..(len + 1 - idx) |-> idx - 1 + k]
    IN  SeqConcat([k \in 1..Len(order) |->
                      Bucket_prioritized_addr_ids(t.buckets[order[k]], instant)])

\* Table::find_neighbors(id, now) collected by the caller
TableFindNeighbors(id) ==
    /\ fault = "none"
    /\ ret' = [op |-> "Table_find_neighbors", id |-> id,
               neighbors |-> Table_find_neighbors(rtable, id, now)]
    /\ UNCHANGED <<nodeVars, coreVars, now, sent, fault>>

\* the table of routing.rs fed messages and timeouts, asked for the
\* neighbours of the pivot and of an id of the upper half
NextTableNeighbors ==
    \/ NextReplacements
    \/ \E id \in {0, 5} : TableFindNeighbors(id)

SpecTableNeighbors == InitTable /\ [][NextTableNeighbors]_vars

\* the primary records of the table that are in this state at now
records_in_state(t, states) ==
    {p \in (1..Len(t.buckets)) \X (1..MaxNodesPerBucket + 1) :
        /\ p[2] <= Len(t.buckets[p[1]].nodes)
        /\ RemoteNode_state_with_now(t.buckets[p[1]].nodes[p[2]], now) \in states}

\* C36: Table::find_neighbors of routing.rs yields every record that is Good
\* or Questionable at now exactly once and no Bad record, and starts with the
\* records of the bucket whose range contains the target id.
C36_NeighborsEachOnce ==
    ret.op = "Table_find_neighbors" =>
        LET live == records_in_state(rtable, {"Good", "Questionable"})
            bad == records_in_state(rtable, {"Bad"})
            first == Bucket_prioritized_addr_ids(
                         rtable.buckets[Table_find_bucket(rtable, ret.id)], now)
        IN  /\ Len(ret.neighbors) = Cardinality(live)
            /\ \A p \in live :
                  rtable.buckets[p[1]].nodes[p[2]].addr_id \in Range(ret.neighbors)
            /\ \A p \in bad :
                  (\A q \in live : rtable.buckets[q[1]].nodes[q[2]].addr_id
                                      # rtable.buckets[p[1]].nodes[p[2]].addr_id)
                  => rtable.buckets[p[1]].nodes[p[2]].addr_id \notin Range(ret.neighbors)
            /\ SubSeq(ret.neighbors, 1, Len(first)) = first
\* ----------------------------------------------- scenario: a dead contact
\* A node that knows one contact, which never sends anything.  The contact at
\* address k + 3 starts with karma k.  The host follows the timeout loop: it
\* asks for the deadline, pops the transactions that timed out, pings the
\* record find_node_to_ping returns with a query that times out at once,
\* refreshes the bucket find_bucket_to_refresh returns and calls on_timeout.
\* Node::find_bucket_to_refresh followed by set_refresh_deadline(now + 15 min)
FindBucketToRefresh ==
    /\ fault = "none"
    /\ \E i \in {cb_Table_find_bucket_to_refresh(routing_table, now)} :
          /\ routing_table' =
                IF i = 0 THEN routing_table
                ELSE [routing_table EXCEPT !.buckets[i] =
                         cb_Bucket_set_refresh_deadline(@, now + BUCKET_REFRESH_INTERVAL)]
          /\ ret' = [op |-> "find_bucket_to_refresh", bucket |-> i]
    /\ UNCHANGED <<config, find_pivot_id_deadline, tx_manager, find_node_ops, next_id, now, sent, fault, lookup_log, coreVars>>

InitDead == \E k \in KARMA_BAD..KARMA_MAX : NodeInitAged(0, TRUE, <<AddrId(k + 3, 1)>>, k)

NextDead ==
    \/ NextTxId(0)
    \/ FindNodeToPing(0, DeadPings)
    \/ PopTimedOutTx
    \/ FindBucketToRefresh
    \/ OnTimeout
    \/ Timeout
    \/ Tick(TIMEOUT_INTERVAL, DeadHorizon)

SpecDead == InitDead /\ [][NextDead]_vars

\* one of the calls of the timeout loop has something to do at now
has_work ==
    \/ timed_out(tx_manager, now) # {}
    \/ IsSome(routing_Table_find_node_to_ping(routing_table, now))
    \/ cb_Table_find_bucket_to_refresh(routing_table, now) # 0
    \/ find_pivot_id_deadline <= now

\* C37: whenever Node::timeout() returns a deadline that is not after now, one
\* of pop_timed_out_tx, find_node_to_ping, find_bucket_to_refresh and
\* on_timeout has work to do; once none of them has, timeout() returns None
\* or a deadline after now.
C37_TimeoutLoopProgresses ==
    (ret.op = "timeout" /\ IsSome(ret.deadline) /\ Unwrap(ret.deadline) <= now) => has_work
\* the record of the silent contact, the karma it started with and the number
\* of its pings that have timed out
dead == routing_table.buckets[1].nodes[1]
dead_karma == dead.addr_id.addr - 3
dead_timeouts == sent - Len(tx_manager)

\* C38: a Questionable record from which nothing more is received becomes Bad
\* after a bounded number of timed-out pings.  Starting from karma k with
\* -2 <= k <= 3, every response timeout lowers the karma by one, the record is
\* Bad exactly from the (k + 3)-th timeout on, at most 6 pings are spent on
\* the contact, and a Bad record is not offered by find_node_to_ping.
C38_DeadContactTurnsBad ==
    /\ dead.karma = dead_karma - dead_timeouts
    /\ now >= TIMEOUT_INTERVAL =>
          (routing_Node_state_with_now(dead, now) = "Bad" <=> dead_timeouts >= dead_karma + 3)
    /\ sent <= KARMA_MAX + 3
    /\ routing_Node_state_with_now(dead, now) = "Bad" =>
          ~IsSome(routing_Table_find_node_to_ping(routing_table, now))

\* the contact that started with karma 3 is Bad after six timed-out pings and
\* find_node_to_ping has just returned None
C38_Witness ==
    /\ dead_karma = KARMA_MAX
    /\ sent = 6
    /\ dead_timeouts = 6
    /\ routing_Node_state_with_now(dead, now) = "Bad"
    /\ ret = [op |-> "find_node_to_ping", node |-> None]
\* ------------------------------------- scenario: queries waiting to be sent
\* A node without contacts whose host authors queries to address 1: it takes
\* an id from next_tx_id, whose random draw is 0 or 1, and queues the datagram;
\* later it sends the datagram at the head of the queue and inserts the
\* transaction.  The queries are answered or time out.
\* Node::next_tx_id with the draw num, the query written with the id returned
\* and queued
AuthorQuery(num, budget) ==
    /\ fault = "none"
    /\ sent < budget
    /\ \E r \in {Node_next_tx_id(tx_manager, num)} :
          /\ r.res = "Ok"
          /\ buffer' = [buffer EXCEPT !.outbound =
                            Append(@, OutboundMsg(r.tx_id, DEFAULT_QUERY_TIMEOUT,
                                                  AddrOptId(1, None),
                                                  [y |-> "q", t |-> Unwrap(r.tx_id)]))]
          /\ ret' = [op |-> "next_tx_id", num |-> num, res |-> r.res, tx_id |-> r.tx_id]
    /\ sent' = sent + 1
    /\ UNCHANGED <<nodeVars, authored, manager, rtable, now, fault>>

\* the datagram at the head of the queue is sent and Node::insert_tx called
\* with its transaction
SendQuery ==
    /\ fault = "none"
    /\ buffer.outbound # <<>>
    /\ \E msg \in {Head(buffer.outbound)} :
          tx_manager' = Transactions_insert(tx_manager,
                           Transaction(msg.addr_opt_id.addr, msg.addr_opt_id.id,
                                       Unwrap(msg.tx_id), now + msg.timeout))
    /\ buffer' = [buffer EXCEPT !.outbound = Tail(@)]
    /\ ret' = [op |-> "insert_tx"]
    /\ UNCHANGED <<config, routing_table, find_pivot_id_deadline, find_node_ops, next_id, lookup_log, authored, manager, rtable, now, sent, fault>>

InitAuthor ==
    /\ config = [local_id |-> 0, strict |-> TRUE]
    /\ routing_table = cb_Table_new(0, 0)
    /\ find_pivot_id_deadline = 0 + FIND_LOCAL_ID_INTERVAL
    /\ tx_manager = <<>>
    /\ find_node_ops = Node_find_node_pivot(routing_table, <<>>, <<>>, 0)
    /\ lookup_log = NoLog
    /\ now = 0
    /\ next_id = None
    /\ sent = 0
    /\ ret = [op |-> "new"]
    /\ fault = "none"
    /\ buffer = Buffer_new
    /\ authored = <<>>
    /\ manager = <<>>
    /\ TableIdle

NextAuthor ==
    \/ \E num \in {0, 1} : AuthorQuery(num, AuthorSent)
    \/ SendQuery
    \/ \E value \in [y : {"r", "e"}, id : {None}, t : {Some(0), Some(1)}] : OnRecv(value, 1)
    \/ PopTimedOutTx
    \/ Tick(DEFAULT_QUERY_TIMEOUT, 1)

SpecAuthor == InitAuthor /\ [][NextAuthor]_vars

\* the transaction ids of the queries that are outstanding: those of the
\* datagrams in the queue and those of the transactions held
outstanding ==
    [i \in 1..Len(buffer.outbound) |-> Unwrap(buffer.outbound[i].tx_id)]
    \o [i \in 1..Len(tx_manager) |-> tx_manager[i].tx_id]

\* C39: any two queries outstanding at the same time carry different
\* transaction ids, the queries that are authored but still in the outbound
\* queue included.
C39_OutstandingIdsDiffer ==
    \A i, j \in 1..Len(outstanding) : outstanding[i] = outstanding[j] => i = j
\* ------------------------------------ claims on terminal operations kept
\* C40: no terminal find-node operation lingers in the node.  Between the
\* calls of the facade the list of find-node operations holds no operation
\* that is terminal, whether it was terminal when created (no candidates) or
\* became so.
C40_NoTerminalOpLingers ==
    \A i \in 1..Len(find_node_ops) : ~FindNodeOp_is_done(find_node_ops[i])

====
